---- MODULE Spec2Model ----
(***************************************************************************)
(* Botarr web client: the root coordinator (App.tsx) with its poll timer,  *)
(* the three polled state slices, the search request, the notification    *)
(* and the click handlers of downloads and transfers; the search result   *)
(* view with its facet list and filters; the settings view with its       *)
(* autojoin input; and the history view.                                   *)
(***************************************************************************)
EXTENDS Integers, Sequences, FiniteSets, TLC

VARIABLES
    mounted,        \* the App component is mounted
    intervalActive, \* the handle returned by setInterval has not been cleared
    activeTab,      \* App.activeTab
    stats,          \* App.stats
    queueSize,      \* App.queueSize
    transfers,      \* App.transfers
    runs,           \* invocations of fetchUpdates in flight, oldest first
    pollUncaught,   \* a rejection escaped an invocation of fetchUpdates
    lastLog,        \* the last message written with console.error
    watch,          \* history: the poll cycle that runs alone, if any
    query,          \* SearchBar.query
    searchResults,  \* App.searchResults
    isLoading,      \* App.isLoading
    searchPend,     \* the search request: "idle", "sent" or "arrived"
    searchResp,     \* the response of the search request once it arrived
    toast,          \* useToast.toast
    toastClock,     \* the timer of the Toast rendered, and the age of its message
    submits,        \* history: number of submissions of the search form
    searchCalls,    \* history: number of GET /api/search issued
    srvIn,          \* a server string given to normalizeServer
    srvOut,         \* the results of applying normalizeServer repeatedly
    srvPre,         \* the result of normalizeServer("irc." + srvIn), once computed
    filterQuery,    \* SearchResults.filterQuery
    selectedServer, \* SearchResults.selectedServer
    minSize,        \* SearchResults.minSize
    maxSize,        \* SearchResults.maxSize
    minText,        \* history: the text last entered in the minimum size input
    maxText,        \* history: the text last entered in the maximum size input
    servers,        \* SearchResults.servers, the memoized facet list
    filteredResults,\* SearchResults.filteredResults, the memoized output
    acts,           \* requests of handleDownload, handleCancel and handleRetry in flight
    settings,       \* SettingsTab.settings
    loading,        \* SettingsTab.loading
    saving,         \* SettingsTab.saving
    newNetworkName, \* SettingsTab.newNetworkName
    settingsToast,  \* the toast of the useToast that SettingsTab calls itself
    setReqs,        \* requests of SettingsTab in flight
    backendNets,    \* history: the names of the networks the backend holds
    netCallsOk,     \* history: every add and delete call so far has succeeded
    localValue,     \* AutojoinInput.localValue, the draft text
    listFrom,       \* autojoin input: what gave it the list it has
    activeSection,  \* HistoryTab.activeSection
    histItems,      \* HistoryTab.searches and HistoryTab.downloads, by id
    histPage,       \* HistoryTab.searchPage and HistoryTab.downloadPage
    histTotalPages, \* HistoryTab.searchTotalPages and HistoryTab.downloadTotalPages
    histTotal,      \* HistoryTab.searchTotal and HistoryTab.downloadTotal
    histSelected,   \* HistoryTab.selectedSearches and HistoryTab.selectedDownloads
    histLoading,    \* HistoryTab.loading
    histReqs,       \* requests of HistoryTab in flight
    histGone,       \* history: the records a successful call has deleted
    histOps,        \* history: number of clicks in the history view
    histLast,       \* history: the last click in the history view
    expandedSearch, \* HistoryTab.expandedSearch, "" for null
    histShown       \* history: the fetch whose response set each list last

vars == <<mounted, intervalActive, activeTab, stats, queueSize, transfers, runs,
          pollUncaught, lastLog, watch, query, searchResults, isLoading,
          searchPend, searchResp, toast, toastClock, submits, searchCalls, srvIn, srvOut,
          srvPre, filterQuery, selectedServer, minSize, maxSize, minText,
          maxText, servers, filteredResults, acts, settings, loading, saving,
          newNetworkName, settingsToast, setReqs, backendNets, netCallsOk,
          localValue, listFrom, activeSection, histItems, histPage,
          histTotalPages, histTotal, histSelected, histLoading, histReqs,
          histGone, histOps, histLast, expandedSearch, histShown>>

pollVars == <<stats, queueSize, transfers, runs, pollUncaught, watch>>
searchVars == <<query, searchResults, isLoading, searchPend, searchResp,
                submits, searchCalls>>
normVars == <<srvIn, srvOut, srvPre>>
actVars == <<acts>>
setVars == <<settings, loading, saving, newNetworkName, settingsToast, setReqs, backendNets, netCallsOk>>
viewVars == <<filterQuery, selectedServer, minSize, maxSize, minText,
              maxText, servers, filteredResults>>
draftVars == <<localValue, listFrom>>
histVars == <<activeSection, histItems, histPage, histTotalPages, histTotal,
              histSelected, histLoading, histReqs, histGone, histOps, histLast,
              expandedSearch, histShown>>

----------------------------------------------------------------------------
(* Bounds of the model *)

MaxInFlight == 2    \* invocations of fetchUpdates in flight at once
MaxSubmits == 3     \* submissions of the search form in one behaviour
MaxQueryLen == 2    \* characters of a search query
MaxSegs == 3        \* segments a server string is built from
MaxApply == 2       \* successive applications of normalizeServer
MaxResults == 2     \* results of a result set shown by the search view
MaxMB == 2          \* largest size bound entered in the filter, in MB
MaxActs == 1        \* requests of the click handlers in flight at once
MaxForced == 1      \* invocations of fetchUpdates in flight that a handler began
MaxSetReqs == 1     \* requests of SettingsTab in flight at once
MaxOverlap == 2     \* add and delete calls of networks that overlap
MaxRecords == 2     \* records of one kind the backend holds
MaxDraftLen == 3    \* characters typed into the autojoin input
PageSize == 1       \* records on a page of the backend
MaxHistOps == 3     \* clicks in the history view
MaxHistReqs == 2    \* requests of HistoryTab in flight at once

----------------------------------------------------------------------------
(* Values *)

Tabs == {"search", "activities", "history", "settings"}

Resources == {"stats", "queue", "transfers"}

\* The values each polled slice takes; the first of each is the default the
\* slice starts with and the one "|| []" / "|| 0" falls back to.
StatsVals == {<<>>, <<"botA">>}
QueueVals == {0, 1}
\* One transfer (types.XdccTransfer), by its id and status
Transfer(id, status) == [id |-> id, status |-> status]

\* types.TransferStatus
TransferStatuses ==
    {"pending", "connecting", "joining", "requesting", "downloading", "completed",
     "failed", "cancelled"}

\* A status the server may report that the type does not list.
OtherStatus == "paused"

SomeTransfers ==
    <<Transfer("t1", "failed"), Transfer("t2", "downloading"), Transfer("t3", OtherStatus)>>

TransferVals == {<<>>, SomeTransfers}

FieldVals(r) ==
    CASE r = "stats" -> StatsVals
      [] r = "queue" -> QueueVals
      [] r = "transfers" -> TransferVals

Default(r) ==
    CASE r = "stats" -> <<>>
      [] r = "queue" -> 0
      [] r = "transfers" -> <<>>

Slice(r) ==
    CASE r = "stats" -> stats
      [] r = "queue" -> queueSize
      [] r = "transfers" -> transfers

\* What a fetch can settle with. kind: "neterr" the fetch promise rejects;
\* "notjson" r.json() rejects; "jsonnull" the body parses to null; "nofield"
\* the body parses to an object without the expected field; "field" the
\* body carries the field with value val. ok is Response.ok (a 2xx status).
Responses(r) ==
    {[ok |-> FALSE, kind |-> "neterr", val |-> Default(r)]}
    \cup {[ok |-> o, kind |-> k, val |-> Default(r)] :
            o \in BOOLEAN, k \in {"notjson", "jsonnull", "nofield"}}
    \cup {[ok |-> o, kind |-> "field", val |-> v] :
            o \in BOOLEAN, v \in FieldVals(r)}

\* await fetch(url).then(r => r.json()) followed by the property access:
\* the statement throws on a rejected fetch, an unparseable body, or null.
Throws(resp) == resp.kind \in {"neterr", "notjson", "jsonnull"}

\* xRes.field || default
OrDefault(resp, r) == IF resp.kind = "field" THEN resp.val ELSE Default(r)

----------------------------------------------------------------------------
(* fetchUpdates: the poll cycle *)

\* The order of the three awaits of fetchUpdates.
FirstStage == "stats"

NextStageTransfersFirst(r) ==
    CASE r = "stats" -> "transfers"
      [] r = "transfers" -> "queue"
      [] r = "queue" -> "done"

NextStage(r) ==
    CASE r = "stats" -> "queue"
      [] r = "queue" -> "transfers"
      [] r = "transfers" -> "done"

StageNo(r) ==
    CASE r = "stats" -> 1
      [] r = "queue" -> 2
      [] r = "transfers" -> 3

\* The handler that catches a throw of resource r's fetch: "inner" is the
\* try/catch around that fetch, "outer" the try/catch around the whole
\* body, "none" lets the rejection escape fetchUpdates.
PollCatchNone(r) == "none"

PollCatch(r) == "inner"

PollLogMessage(r) ==
    CASE r = "stats" -> "Stats fetch failed"
      [] r = "queue" -> "Queue fetch failed"
      [] r = "transfers" -> "Transfers fetch failed"

\* The value slice r holds after the statement "setX(xRes.field || default)"
\* of a fetch that settled with resp, given it held cur.
AppliedClearsOnThrow(r, resp, cur) ==
    IF Throws(resp) THEN Default(r) ELSE OrDefault(resp, r)

Applied(r, resp, cur) ==
    IF Throws(resp) THEN cur ELSE OrDefault(resp, r)

\* How the watched cycle's fetch of a resource ended. "threw": the
\* statement threw; "ok": a 2xx response carrying the field; "bad": a
\* response that is non-2xx or lacks the field, yet did not throw.
Classify(resp) ==
    IF Throws(resp) THEN "threw"
    ELSE IF resp.ok /\ resp.kind = "field" THEN "ok" ELSE "bad"

\* History: the cycle that began with no other invocation in flight is
\* watched until another invocation begins: the view it began in, the
\* slices before it, and per resource how its fetch ended and the field
\* value the response carried.
NoWatch ==
    [live |-> FALSE,
     tab |-> "search",
     pre |-> [stats |-> <<>>, queue |-> 0, transfers |-> <<>>],
     got |-> [r \in Resources |-> "pending"],
     val |-> [stats |-> <<>>, queue |-> 0, transfers |-> <<>>]]

NewWatch ==
    [live |-> TRUE,
     tab |-> activeTab,
     pre |-> [stats |-> stats, queue |-> queueSize, transfers |-> transfers],
     got |-> [r \in Resources |-> "pending"],
     val |-> [stats |-> stats, queue |-> queueSize, transfers |-> transfers]]

\* An invocation in flight: pc is the fetch it awaits; stale (history) holds
\* the resources it has yet to apply for which an invocation begun later
\* has already applied its result.
NewRun == [pc |-> FirstStage, stale |-> {}]

\* The fetches an invocation has issued and not yet seen settle: each await
\* holds the invocation until its fetch settles, so there is one at a time.
Outstanding(run) == {run.pc}

\* An invocation of fetchUpdates begins: it runs up to its first await.
StartFetchUpdates ==
    /\ runs' = Append(runs, NewRun)
    /\ watch' = IF runs = <<>> /\ mounted THEN NewWatch ELSE NoWatch

RemoveAt(s, i) == [j \in 1..(Len(s) - 1) |-> IF j < i THEN s[j] ELSE s[j + 1]]

\* The timer of setInterval(fetchUpdates, 1000) fires.
Tick ==
    /\ intervalActive
    /\ Len(runs) < MaxInFlight
    /\ StartFetchUpdates
    /\ UNCHANGED <<mounted, intervalActive, activeTab, stats, queueSize,
                   transfers, pollUncaught, lastLog, toast, toastClock>>
    /\ UNCHANGED searchVars
    /\ UNCHANGED <<normVars, viewVars, actVars, setVars, draftVars, histVars>>

\* The fetch that invocation i awaits settles with resp, and the invocation
\* runs on to its next await or to its end.
SettleWith(i, resp) ==
    LET run == runs[i]
        r == run.pc
        threw == Throws(resp)
        handler == PollCatch(r)
        sets == mounted /\ ~threw
        ends == NextStage(r) = "done" \/ (threw /\ handler # "inner")
        after == [j \in 1..Len(runs) |->
                    IF j = i
                      THEN [pc |-> NextStage(r), stale |-> run.stale \ {r}]
                    ELSE IF j < i /\ sets /\ StageNo(runs[j].pc) <= StageNo(r)
                      THEN [runs[j] EXCEPT !.stale = @ \cup {r}]
                    ELSE runs[j]]
    IN
    /\ runs' = IF ends THEN RemoveAt(after, i) ELSE after
    /\ stats' = IF r = "stats" /\ mounted THEN Applied(r, resp, stats) ELSE stats
    /\ queueSize' = IF r = "queue" /\ mounted
                      THEN Applied(r, resp, queueSize) ELSE queueSize
    /\ transfers' = IF r = "transfers" /\ mounted
                      THEN Applied(r, resp, transfers) ELSE transfers
    /\ lastLog' = IF ~threw \/ handler = "none" THEN lastLog
                  ELSE IF handler = "inner" THEN PollLogMessage(r)
                  ELSE "Unexpected error in fetchUpdates"
    /\ pollUncaught' = (pollUncaught \/ (threw /\ handler = "none"))
    /\ watch' = IF watch.live /\ Len(runs) = 1
                  THEN [watch EXCEPT !.got[r] = Classify(resp), !.val[r] = resp.val]
                  ELSE watch

Settle(i) ==
    /\ i \in 1..Len(runs)
    /\ runs[i].pc \in Outstanding(runs[i])
    /\ \E resp \in Responses(runs[i].pc) : SettleWith(i, resp)
    /\ UNCHANGED <<mounted, intervalActive, activeTab, toast, toastClock>>
    /\ UNCHANGED searchVars
    /\ UNCHANGED <<normVars, viewVars, actVars, setVars, draftVars, histVars>>

----------------------------------------------------------------------------
(* SearchResults.normalizeServer *)

IrcPrefix == <<"i", "r", "c", ".">>

\* The pieces the server strings of the model are concatenated from.
Segments ==
    {IrcPrefix, <<"I", "R", "C", ".">>, <<"i", "r", "c">>, <<".">>, <<"f">>, <<"N">>}

RECURSIVE ServerStringsOf(_)
ServerStringsOf(n) ==
    IF n = 0 THEN {<<>>}
    ELSE LET shorter == ServerStringsOf(n - 1)
         IN shorter \cup {s \o g : s \in shorter, g \in Segments}

ServerStrings == ServerStringsOf(MaxSegs)

\* String.prototype.toLowerCase on one character
ToLowerChar(c) ==
    CASE c = "I" -> "i"
      [] c = "R" -> "r"
      [] c = "C" -> "c"
      [] c = "N" -> "n"
      [] c = "A" -> "a"
      [] c = "B" -> "b"
      [] OTHER -> c

toLowerCase(s) == [i \in 1..Len(s) |-> ToLowerChar(s[i])]

HasPrefix(s, p) == Len(s) >= Len(p) /\ SubSeq(s, 1, Len(p)) = p

\* norm.replace(/^irc\./, ''): one leading occurrence is removed
StripIrc(s) == IF HasPrefix(s, IrcPrefix) THEN SubSeq(s, Len(IrcPrefix) + 1, Len(s)) ELSE s

normalizeServer(s) == StripIrc(toLowerCase(s))

----------------------------------------------------------------------------
(* SearchResults: the facet list and the filtered output *)

\* One search result (types.XdccSearchResult)
Result(server, file_size, file_name) ==
    [server |-> server, channel |-> <<"#", "c">>, bot |-> <<"b">>,
     pack_number |-> 1, file_size |-> file_size, file_name |-> file_name]

\* The UTF-16 code unit of a character, which Array.prototype.sort and
\* string comparison order by.
CharCode(c) ==
    CASE c = " " -> 32
      [] c = "#" -> 35
      [] c = "." -> 46
      [] c = "A" -> 65
      [] c = "B" -> 66
      [] c = "C" -> 67
      [] c = "I" -> 73
      [] c = "N" -> 78
      [] c = "R" -> 82
      [] c = "a" -> 97
      [] c = "b" -> 98
      [] c = "c" -> 99
      [] c = "f" -> 102
      [] c = "i" -> 105
      [] c = "n" -> 110
      [] c = "r" -> 114

RECURSIVE StrLess(_, _)
StrLess(a, b) ==
    IF a = <<>> THEN b # <<>>
    ELSE IF b = <<>> THEN FALSE
    ELSE IF Head(a) = Head(b) THEN StrLess(Tail(a), Tail(b))
    ELSE CharCode(Head(a)) < CharCode(Head(b))

RECURSIVE Insert(_, _)
Insert(x, s) ==
    IF s = <<>> THEN <<x>>
    ELSE IF StrLess(x, Head(s)) THEN <<x>> \o s
    ELSE <<Head(s)>> \o Insert(x, Tail(s))

\* Array.prototype.sort without a comparator, on strings
RECURSIVE SortStrings(_)
SortStrings(s) == IF s = <<>> THEN <<>> ELSE Insert(Head(s), SortStrings(Tail(s)))

SeenHas(seen, norm) == \E k \in 1..Len(seen) : seen[k].norm = norm

\* The update of the Map for one result; a Map keeps its keys in insertion
\* order, and Map.set on a key it holds replaces the value in place.
SeenSetAlways(seen, norm, raw) ==
    IF SeenHas(seen, norm)
      THEN [k \in 1..Len(seen) |->
              IF seen[k].norm = norm THEN [norm |-> norm, raw |-> raw] ELSE seen[k]]
      ELSE Append(seen, [norm |-> norm, raw |-> raw])

SeenSet(seen, norm, raw) ==
    IF ~SeenHas(seen, norm) THEN Append(seen, [norm |-> norm, raw |-> raw]) ELSE seen

\* results.forEach of the servers memo
RECURSIVE SeenAfter(_, _)
SeenAfter(items, seen) ==
    IF items = <<>> THEN seen
    ELSE SeenAfter(Tail(items),
                   SeenSet(seen, normalizeServer(Head(items).server), Head(items).server))

\* The servers memo: Array.from(seen.values()).sort()
ServersOf(items) ==
    LET seen == SeenAfter(items, <<>>)
    IN SortStrings([k \in 1..Len(seen) |-> seen[k].raw])

\* String.prototype.includes
Includes(s, sub) ==
    \E k \in 0..(Len(s) - Len(sub)) : SubSeq(s, k + 1, k + Len(sub)) = sub

\* A size bound of the filter: '' or a number
Unset == [set |-> FALSE, n |-> 0]

Digits == <<"0", "1", "2", "3", "4", "5", "6", "7", "8", "9">>

DigitVal(c) == (CHOOSE d \in 1..10 : Digits[d] = c) - 1

\* Number(text) for the text of a number input holding a natural number
RECURSIVE NumberOf(_)
NumberOf(text) ==
    IF text = <<>> THEN 0
    ELSE 10 * NumberOf(SubSeq(text, 1, Len(text) - 1)) + DigitVal(text[Len(text)])

\* e.target.value ? Number(e.target.value) : '' with the truth value of the
\* number instead of that of the text
ParseBoundByNumber(text) ==
    IF NumberOf(text) # 0 THEN [set |-> TRUE, n |-> NumberOf(text)] ELSE Unset

\* e.target.value ? Number(e.target.value) : ''
ParseBound(text) ==
    IF text # <<>> THEN [set |-> TRUE, n |-> NumberOf(text)] ELSE Unset

\* The callback of results.filter in the filteredResults memo
Keeps(res, fq, sel, min, max) ==
    IF fq # <<>> /\ ~Includes(toLowerCase(res.file_name), toLowerCase(fq)) THEN FALSE
    ELSE IF sel # <<>> /\ normalizeServer(res.server) # normalizeServer(sel) THEN FALSE
    ELSE IF min.set /\ res.file_size < min.n * 1024 * 1024 THEN FALSE
    ELSE IF max.set /\ res.file_size > max.n * 1024 * 1024 THEN FALSE
    ELSE TRUE

\* The filteredResults memo
FilteredOf(items, fq, sel, min, max) ==
    LET keep(res) == Keeps(res, fq, sel, min, max)
    IN SelectSeq(items, keep)

\* App renders SearchResults in the search view while the result set is
\* not empty.
ViewRendered(m, tab, results) ==
    m /\ tab = "search" /\ results.defined /\ results.items # <<>>

\* The state of SearchResults when it is mounted with a result set.
ViewMount(items) ==
    /\ filterQuery' = <<>>
    /\ selectedServer' = <<>>
    /\ minSize' = Unset
    /\ maxSize' = Unset
    /\ minText' = <<>>
    /\ maxText' = <<>>
    /\ servers' = ServersOf(items)
    /\ filteredResults' = FilteredOf(items, <<>>, <<>>, Unset, Unset)

\* SearchResults is not rendered: it holds no state.
ViewGone == ViewMount(<<>>)

\* SearchResults is rendered again with a new result set: its state is
\* kept and both memos are computed again.
ViewRerender(items) ==
    /\ UNCHANGED <<filterQuery, selectedServer, minSize, maxSize, minText, maxText>>
    /\ servers' = ServersOf(items)
    /\ filteredResults' = FilteredOf(items, filterQuery, selectedServer, minSize, maxSize)

\* The view after a step of the root that may change what it renders.
ViewFollows ==
    IF ~ViewRendered(mounted', activeTab', searchResults') THEN ViewGone
    ELSE IF ViewRendered(mounted, activeTab, searchResults)
      THEN ViewRerender(searchResults'.items)
    ELSE ViewMount(searchResults'.items)

\* What every handler of a filter input leaves alone.
ViewFrame ==
    /\ servers' = servers
    /\ UNCHANGED <<mounted, intervalActive, activeTab, lastLog, toast, toastClock>>
    /\ UNCHANGED pollVars
    /\ UNCHANGED searchVars
    /\ UNCHANGED <<normVars, actVars, setVars, draftVars, histVars>>

\* onChange of the text input; the memo follows in the same render.
SetFilterQuery(text) ==
    /\ ViewRendered(mounted, activeTab, searchResults)
    /\ filterQuery' = text
    /\ filteredResults' =
         FilteredOf(searchResults.items, text, selectedServer, minSize, maxSize)
    /\ UNCHANGED <<selectedServer, minSize, maxSize, minText, maxText>>
    /\ ViewFrame

\* onChange of the select, whose options are "" and the facet list
SetSelectedServer(sel) ==
    /\ ViewRendered(mounted, activeTab, searchResults)
    /\ sel = <<>> \/ \E k \in 1..Len(servers) : servers[k] = sel
    /\ selectedServer' = sel
    /\ filteredResults' =
         FilteredOf(searchResults.items, filterQuery, sel, minSize, maxSize)
    /\ UNCHANGED <<filterQuery, minSize, maxSize, minText, maxText>>
    /\ ViewFrame

\* onChange of the minimum size input
SetMinSize(text) ==
    /\ ViewRendered(mounted, activeTab, searchResults)
    /\ minText' = text
    /\ minSize' = ParseBound(text)
    /\ filteredResults' =
         FilteredOf(searchResults.items, filterQuery, selectedServer, minSize', maxSize)
    /\ UNCHANGED <<filterQuery, selectedServer, maxSize, maxText>>
    /\ ViewFrame

\* onChange of the maximum size input
SetMaxSize(text) ==
    /\ ViewRendered(mounted, activeTab, searchResults)
    /\ maxText' = text
    /\ maxSize' = ParseBound(text)
    /\ filteredResults' =
         FilteredOf(searchResults.items, filterQuery, selectedServer, minSize, maxSize')
    /\ UNCHANGED <<filterQuery, selectedServer, minSize, minText>>
    /\ ViewFrame

----------------------------------------------------------------------------
(* useToast, and the state SettingsTab is mounted with *)

NoToast == [message |-> "", type |-> "success", visible |-> FALSE]

\* useToast.showToast
ShownToast(message, type) == [message |-> message, type |-> type, visible |-> TRUE]

\* The delay of the timer of Toast, in seconds: setTimeout(onClose, 3000)
ToastDelay == 3

\* No Toast is rendered, so no timer is set.
NoClock == [timer |-> -1, age |-> 0]

\* App renders Toast while toast.visible.
ToastRendered(m, t) == m /\ t.visible

TimerNever(was, is, timer) == -1

\* The seconds left on the timer of Toast after a render: its effect sets
\* the timer when Toast is mounted and its cleanup clears it when Toast
\* is unmounted; as onClose is the same function in every render, the
\* effect does not run again while Toast stays mounted.
TimerAfter(was, is, timer) ==
    IF ~is THEN -1 ELSE IF ~was THEN ToastDelay ELSE timer

\* The timer and the age of the message after a step of the root, in
\* which showToast was called or not.
ToastFollows(shown) ==
    LET was == ToastRendered(mounted, toast)
        is == ToastRendered(mounted', toast')
    IN toastClock' =
         [timer |-> TimerAfter(was, is, toastClock.timer),
          age |-> IF is /\ was /\ ~shown THEN toastClock.age ELSE 0]


\* The body of a request that has none.
NoBody == [none |-> TRUE]

\* settings while it is null.
NoSettings == [present |-> FALSE, doc |-> NoBody]

\* GET /api/settings of fetchSettings
LoadRequest ==
    [kind |-> "load", method |-> "GET", path |-> <<"api", "settings">>,
     body |-> NoBody, held |-> NoSettings]

\* App renders SettingsTab in the settings view.
SettingsRendered(m, tab) == m /\ tab = "settings"

\* SettingsTab is mounted: its first render, and its effect calls
\* fetchSettings, which runs up to its await.
SettingsMount ==
    /\ settings' = NoSettings
    /\ loading' = TRUE
    /\ saving' = FALSE
    /\ newNetworkName' = <<>>
    /\ settingsToast' = NoToast
    /\ setReqs' = {LoadRequest}
    /\ backendNets' = {}
    /\ netCallsOk' = TRUE

\* SettingsTab is not rendered: it holds no state, and what its handlers
\* in flight set when they resume changes nothing.
SettingsGone ==
    /\ settings' = NoSettings
    /\ loading' = TRUE
    /\ saving' = FALSE
    /\ newNetworkName' = <<>>
    /\ settingsToast' = NoToast
    /\ setReqs' = {}
    /\ backendNets' = {}
    /\ netCallsOk' = TRUE

\* SettingsTab after a step of the root that may change what it renders.
SettingsFollows ==
    IF ~SettingsRendered(mounted', activeTab') THEN SettingsGone
    ELSE IF SettingsRendered(mounted, activeTab) THEN UNCHANGED setVars
    ELSE SettingsMount

----------------------------------------------------------------------------
(* AutojoinInput and HistoryTab: the state they are mounted with *)

\* AutojoinInput of a network without autojoin channels: localValue
\* starts as value.join(', ').
DraftIsFresh == localValue = <<>> /\ listFrom = "mount"

\* The network whose card holds the AutojoinInput.
DraftNetwork == <<"N">>

\* Array.prototype.join
RECURSIVE Join(_, _)
Join(list, sep) ==
    IF list = <<>> THEN <<>>
    ELSE IF Len(list) = 1 THEN list[1]
    ELSE list[1] \o sep \o Join(Tail(list), sep)

\* SettingsTab renders the card of the network, and AutojoinInput in it,
\* once it has loaded a document that holds the network.
DraftShown(m, tab, ld, cur) ==
    /\ SettingsRendered(m, tab)
    /\ ~ld
    /\ cur.present
    /\ DraftNetwork \in DOMAIN cur.doc.networks

EffectNever(old, new) == FALSE

\* The effect of AutojoinInput runs after a render in which its
\* dependency value.join(',') differs from that of the render before.
EffectRuns(old, new) == Join(new, <<",">>) # Join(old, <<",">>)

\* The list of the network of the input in a document that holds it.
ListIn(cur) == cur.doc.networks[DraftNetwork].autojoin_channels

\* localValue after a step that may change what SettingsTab renders or
\* the list AutojoinInput is given: useState(value.join(', ')) when it is
\* mounted, and setLocalValue(value.join(', ')) when its effect runs.
\* listFrom records by what the list was given: by the mount of the
\* input, or by the step, "blur" or "call", that changed it.
DraftFollows(by) ==
    LET was == DraftShown(mounted, activeTab, loading, settings)
        is == DraftShown(mounted', activeTab', loading', settings')
    IN /\ localValue' =
            IF ~is THEN <<>>
            ELSE IF ~was THEN Join(ListIn(settings'), <<",", " ">>)
            ELSE IF EffectRuns(ListIn(settings), ListIn(settings'))
              THEN Join(ListIn(settings'), <<",", " ">>)
            ELSE localValue
       /\ listFrom' =
            IF ~is \/ ~was THEN "mount"
            ELSE IF ListIn(settings') # ListIn(settings) THEN by
            ELSE listFrom

\* The two record kinds of HistoryTab, named as activeSection names them.
HistKinds == {"downloads", "searches"}

\* The ids of the records the backend holds when the view is first
\* opened; those of searches are numbers, written as a path holds them.
SearchIdPool == <<"1", "2", "3", "4">>

DownloadIdPool == <<"d1", "d2", "d3", "d4">>

\* The n-th record of a kind, in the order the backend lists them.
RecordAt(kind, n) ==
    IF kind = "searches" THEN SearchIdPool[n] ELSE DownloadIdPool[n]

RecordIds(kind) == {RecordAt(kind, n) : n \in 1..MaxRecords}

NoQuery == [none |-> TRUE]

\* The limit each fetch asks for.
PageLimit == 10

\* GET /api/search-history or /api/history of fetchSearchHistory and
\* fetchDownloadHistory, with the page their closure holds
FetchRequest(kind, p) ==
    [op |-> "fetch", kind |-> kind, method |-> "GET",
     path |-> IF kind = "searches" THEN <<"api", "search-history">>
              ELSE <<"api", "history">>,
     query |-> [page |-> p, limit |-> PageLimit],
     body |-> NoBody, held |-> {}]

\* No click yet.
NoClick == [op |-> "none", kind |-> "none", answer |-> TRUE]

\* App renders HistoryTab in the history view.
HistoryRendered(m, tab) == m /\ tab = "history"

\* The state of HistoryTab as useState initializes it.
HistoryStateIs(section, items, pages, totalPages, totals, selections) ==
    /\ section = "downloads"
    /\ items = [k \in HistKinds |-> <<>>]
    /\ pages = [k \in HistKinds |-> 1]
    /\ totalPages = [k \in HistKinds |-> 1]
    /\ totals = [k \in HistKinds |-> 0]
    /\ selections = [k \in HistKinds |-> {}]

\* No row is expanded.
NoRow == ""

\* No response of the history endpoints.
NoHistResp ==
    [kind |-> "none", ok |-> FALSE, shape |-> "none", items |-> <<>>,
     total |-> 0, total_pages |-> 0]

\* No response has set a list yet.
NothingShown ==
    [k \in HistKinds |-> [page |-> 0, failed |-> FALSE, resp |-> NoHistResp]]

\* HistoryTab is mounted: its first render, and its effect calls
\* fetchDownloadHistory, which runs up to its await.
HistoryMount ==
    /\ HistoryStateIs(activeSection', histItems', histPage', histTotalPages',
                      histTotal', histSelected')
    /\ expandedSearch' = NoRow
    /\ histShown' = NothingShown
    /\ histLoading' = TRUE
    /\ histReqs' = {FetchRequest("downloads", 1)}
    /\ UNCHANGED <<histGone, histOps, histLast>>

\* The state of HistoryTab once it is not rendered: it holds none, and
\* what its handlers in flight set when they resume changes nothing.
HistoryStateGone ==
    /\ HistoryStateIs(activeSection', histItems', histPage', histTotalPages',
                      histTotal', histSelected')
    /\ expandedSearch' = NoRow
    /\ histShown' = NothingShown
    /\ histLoading' = FALSE
    /\ histReqs' = {}

\* HistoryTab is not rendered.
HistoryGone ==
    /\ HistoryStateGone
    /\ UNCHANGED <<histGone, histOps, histLast>>

\* HistoryTab while it is not rendered and nothing was deleted yet.
HistoryIsGone ==
    /\ HistoryStateIs(activeSection, histItems, histPage, histTotalPages,
                      histTotal, histSelected)
    /\ expandedSearch = NoRow
    /\ histShown = NothingShown
    /\ histLoading = FALSE
    /\ histReqs = {}
    /\ histGone = [k \in HistKinds |-> {}]
    /\ histOps = 0
    /\ histLast = NoClick

\* HistoryTab after a step of the root that may change what it renders.
HistoryFollows ==
    IF ~HistoryRendered(mounted', activeTab') THEN HistoryGone
    ELSE IF HistoryRendered(mounted, activeTab) THEN UNCHANGED histVars
    ELSE HistoryMount

----------------------------------------------------------------------------
(* The root component: views, teardown, notification *)

\* A render of App with the search view active evaluates
\* searchResults.length, which throws when searchResults is undefined; an
\* error thrown by a render unmounts the root.
RenderThrows(tab, results) == tab = "search" /\ ~results.defined

\* Whether the effect that holds the interval stays set up while view tab is
\* active: its dependency list is empty and it belongs to the root, so it
\* is set up on mount and cleaned up on unmount only.
PollEffectLiveInActivities(tab) == tab = "activities"

PollEffectLive(tab) == TRUE

\* Tabs.onTabChange = setActiveTab. SearchBar lives only while the search
\* view is rendered, so its query starts empty again after every change.
SetActiveTab(t) ==
    /\ mounted
    /\ t \in Tabs \ {activeTab}
    /\ activeTab' = t
    /\ query' = <<>>
    /\ mounted' = ~RenderThrows(t, searchResults)
    /\ intervalActive' = (intervalActive /\ mounted' /\ PollEffectLive(t))
    /\ watch' = IF mounted' THEN watch ELSE NoWatch
    /\ UNCHANGED <<stats, queueSize, transfers, runs, pollUncaught, lastLog, toast,
                   searchResults, isLoading, searchPend, searchResp, submits,
                   searchCalls>>
    /\ UNCHANGED <<normVars, actVars>>
    /\ ViewFollows
    /\ SettingsFollows
    /\ DraftFollows("mount")
    /\ HistoryFollows
    /\ ToastFollows(FALSE)

\* The root is torn down: the cleanup of the effect clears the interval.
Unmount ==
    /\ mounted
    /\ mounted' = FALSE
    /\ intervalActive' = FALSE
    /\ watch' = NoWatch
    /\ UNCHANGED <<activeTab, stats, queueSize, transfers, runs, pollUncaught,
                   lastLog, toast>>
    /\ UNCHANGED searchVars
    /\ UNCHANGED <<normVars, actVars>>
    /\ ViewFollows
    /\ SettingsFollows
    /\ DraftFollows("mount")
    /\ HistoryFollows
    /\ ToastFollows(FALSE)

\* What the steps of the notification leave alone.
ToastFrame ==
    /\ UNCHANGED <<mounted, intervalActive, activeTab, lastLog>>
    /\ UNCHANGED pollVars
    /\ UNCHANGED searchVars
    /\ UNCHANGED <<normVars, viewVars, actVars, setVars, draftVars, histVars>>

\* useToast.hideToast, called by the close button of Toast.
HideToast ==
    /\ mounted
    /\ toast.visible
    /\ toast' = [toast EXCEPT !.visible = FALSE]
    /\ ToastFrame
    /\ ToastFollows(FALSE)

\* A second passes while the timer of Toast is running.
ClockTick ==
    /\ ToastRendered(mounted, toast)
    /\ toastClock.timer > 0
    /\ toastClock' = [timer |-> toastClock.timer - 1,
                      age |-> toastClock.age + 1]
    /\ UNCHANGED toast
    /\ ToastFrame

\* The timer of Toast fires: onClose, which is hideToast.
ToastTimeout ==
    /\ ToastRendered(mounted, toast)
    /\ toastClock.timer = 0
    /\ toast' = [toast EXCEPT !.visible = FALSE]
    /\ ToastFrame
    /\ ToastFollows(FALSE)

----------------------------------------------------------------------------
(* SearchBar.handleSubmit and App.handleSearch *)

QueryChars == {" ", "a"}

Whitespace == {" "}

RECURSIVE SeqsUpTo(_, _)
SeqsUpTo(S, n) ==
    IF n = 0 THEN {<<>>}
    ELSE LET shorter == SeqsUpTo(S, n - 1)
         IN shorter \cup {Append(q, c) : q \in shorter, c \in S}

Queries == SeqsUpTo(QueryChars, MaxQueryLen)

RECURSIVE TrimStart(_)
TrimStart(q) ==
    IF q # <<>> /\ Head(q) \in Whitespace THEN TrimStart(Tail(q)) ELSE q

RECURSIVE TrimEnd(_)
TrimEnd(q) ==
    IF q # <<>> /\ q[Len(q)] \in Whitespace
      THEN TrimEnd(SubSeq(q, 1, Len(q) - 1)) ELSE q

\* String.prototype.trim
Trim(q) == TrimEnd(TrimStart(q))

\* The condition of handleSubmit under which onSearch is called.
SubmitCallsUntrimmed(q) == q # <<>>

SubmitCalls(q) == Trim(q) # <<>>

ResultVals ==
    {<<>>,
     <<Result(<<"f">>, 1024 * 1024, <<"a">>)>>,
     <<Result(IrcPrefix \o <<"f">>, 0, <<"a", "B">>), Result(<<"f">>, 1024 * 1024, <<"a">>)>>}

NoResp == [ok |-> FALSE, kind |-> "none", val |-> <<>>]

SearchResponses ==
    {[ok |-> FALSE, kind |-> "neterr", val |-> <<>>]}
    \cup {[ok |-> o, kind |-> k, val |-> <<>>] :
            o \in BOOLEAN, k \in {"notjson", "jsonnull", "nofield"}}
    \cup {[ok |-> o, kind |-> "field", val |-> v] :
            o \in BOOLEAN, v \in ResultVals}

\* data.results
ResultsOf(resp) ==
    IF resp.kind = "field" THEN [defined |-> TRUE, items |-> resp.val]
    ELSE [defined |-> FALSE, items |-> <<>>]

\* The user types into the search box.
SetQuery(q) ==
    /\ mounted
    /\ activeTab = "search"
    /\ q \in Queries \ {query}
    /\ query' = q
    /\ UNCHANGED <<mounted, intervalActive, activeTab, lastLog, toast, toastClock,
                   searchResults, isLoading, searchPend, searchResp, submits,
                   searchCalls>>
    /\ UNCHANGED pollVars
    /\ UNCHANGED <<normVars, viewVars, actVars, setVars, draftVars, histVars>>

\* The search form is submitted (its submit button is disabled while
\* isLoading): handleSubmit, and handleSearch up to its await of fetch.
HandleSubmit ==
    /\ mounted
    /\ activeTab = "search"
    /\ ~isLoading
    /\ submits < MaxSubmits
    /\ submits' = submits + 1
    /\ IF SubmitCalls(query)
         THEN /\ isLoading' = TRUE
              /\ searchPend' = "sent"
              /\ searchCalls' = searchCalls + 1
         ELSE UNCHANGED <<isLoading, searchPend, searchCalls>>
    /\ UNCHANGED <<mounted, intervalActive, activeTab, lastLog, toast, toastClock, query,
                   searchResults, searchResp>>
    /\ UNCHANGED pollVars
    /\ UNCHANGED <<normVars, viewVars, actVars, setVars, draftVars, histVars>>

\* The backend answers the search request, or the transport fails.
SearchRespond ==
    /\ searchPend = "sent"
    /\ \E resp \in SearchResponses : searchResp' = resp
    /\ searchPend' = "arrived"
    /\ UNCHANGED <<mounted, intervalActive, activeTab, lastLog, toast, toastClock, query,
                   searchResults, isLoading, submits, searchCalls>>
    /\ UNCHANGED pollVars
    /\ UNCHANGED <<normVars, viewVars, actVars, setVars, draftVars, histVars>>

\* The loading flag after handleSearch has run its catch and finally.
LoadingAfterNoFinally(resp) == Throws(resp)

LoadingAfter(resp) == FALSE

\* The result set after handleSearch has handled resp, given it held cur.
ResultsAfter(resp, cur) == IF Throws(resp) THEN cur ELSE ResultsOf(resp)

\* handleSearch resumes after its awaits: try, catch and finally.
SearchSettle ==
    /\ searchPend = "arrived"
    /\ searchPend' = "idle"
    /\ searchResp' = NoResp
    /\ searchResults' = IF mounted THEN ResultsAfter(searchResp, searchResults)
                        ELSE searchResults
    /\ lastLog' = IF Throws(searchResp) THEN "Search failed" ELSE lastLog
    /\ toast' = IF mounted /\ Throws(searchResp)
                  THEN ShownToast("Search failed", "error") ELSE toast
    /\ isLoading' = IF mounted THEN LoadingAfter(searchResp) ELSE isLoading
    /\ mounted' = (mounted /\ ~RenderThrows(activeTab, searchResults'))
    /\ intervalActive' = (intervalActive /\ mounted')
    /\ watch' = IF mounted' THEN watch ELSE NoWatch
    /\ UNCHANGED <<activeTab, query, submits, searchCalls, stats, queueSize,
                   transfers, runs, pollUncaught>>
    /\ UNCHANGED <<normVars, actVars>>
    /\ ViewFollows
    /\ SettingsFollows
    /\ DraftFollows("mount")
    /\ HistoryFollows
    /\ ToastFollows(mounted /\ Throws(searchResp))

----------------------------------------------------------------------------
(* App.handleDownload, App.handleCancel and App.handleRetry *)

\* String(n) of a natural number
RECURSIVE NumberText(_)
NumberText(n) ==
    IF n < 10 THEN <<Digits[n + 1]>>
    ELSE NumberText(n \div 10) \o <<Digits[(n % 10) + 1]>>

\* `irc://${server}/${channel}/${bot}/${pack_number}`
DownloadUrl(result) ==
    <<"i", "r", "c", ":", "/", "/">> \o result.server \o <<"/">> \o result.channel
      \o <<"/">> \o result.bot \o <<"/">> \o NumberText(result.pack_number)

DownloadRequest(result) ==
    [kind |-> "download", method |-> "POST", path |-> <<"api", "download">>,
     body |-> DownloadUrl(result)]

CancelRequest(id) ==
    [kind |-> "cancel", method |-> "DELETE", path |-> <<"api", "transfers", id>>,
     body |-> <<>>]

RetryRequest(id) ==
    [kind |-> "retry", method |-> "POST", path |-> <<"api", "transfers", id, "retry">>,
     body |-> <<>>]

\* How the fetch of a request settles: it resolves with a response of a
\* success status or of another status, or it rejects.
ActResponses ==
    {[ok |-> TRUE, kind |-> "response"], [ok |-> FALSE, kind |-> "response"],
     [ok |-> FALSE, kind |-> "neterr"]}

Rejects(resp) == resp.kind = "neterr"

\* The controls TransferList offers for a transfer of a status.
ControlsByActivity(status) ==
    IF status \in {"pending", "connecting", "joining", "requesting", "downloading"}
      THEN {"cancel"} ELSE {"retry"}

Controls(status) ==
    IF status = "failed" \/ status = "cancelled" THEN {"retry"} ELSE {"cancel"}

\* The transfer list after the handler of a click has run, before any
\* await: with the transfer removed at once, and as the handlers leave it.
TransfersAfterClickOptimistic(kind, id, cur) ==
    IF kind = "cancel" THEN SelectSeq(cur, LAMBDA t : t.id # id) ELSE cur

TransfersAfterClick(kind, id, cur) == cur

\* What a click handler leaves alone: it runs up to its await of fetch.
ClickFrame ==
    /\ UNCHANGED <<mounted, intervalActive, activeTab, stats, queueSize, runs,
                   pollUncaught, watch, lastLog, toast, toastClock>>
    /\ UNCHANGED searchVars
    /\ UNCHANGED <<normVars, viewVars, setVars, draftVars, histVars>>

\* A card of the filtered output is clicked: handleDownload up to its await.
HandleDownload(k) ==
    /\ ViewRendered(mounted, activeTab, searchResults)
    /\ k \in 1..Len(filteredResults)
    /\ Len(acts) < MaxActs
    /\ acts' = Append(acts, DownloadRequest(filteredResults[k]))
    /\ transfers' = TransfersAfterClick("download", "", transfers)
    /\ ClickFrame

\* The control offered for transfer k is clicked and is cancel.
HandleCancel(k) ==
    /\ mounted /\ activeTab = "activities"
    /\ k \in 1..Len(transfers)
    /\ "cancel" \in Controls(transfers[k].status)
    /\ Len(acts) < MaxActs
    /\ acts' = Append(acts, CancelRequest(transfers[k].id))
    /\ transfers' = TransfersAfterClick("cancel", transfers[k].id, transfers)
    /\ ClickFrame

\* The control offered for transfer k is clicked and is retry.
HandleRetry(k) ==
    /\ mounted /\ activeTab = "activities"
    /\ k \in 1..Len(transfers)
    /\ "retry" \in Controls(transfers[k].status)
    /\ Len(acts) < MaxActs
    /\ acts' = Append(acts, RetryRequest(transfers[k].id))
    /\ transfers' = TransfersAfterClick("retry", transfers[k].id, transfers)
    /\ ClickFrame

\* Whether the continuation of the handler reaches its call of fetchUpdates:
\* in all three it follows the await, and a rejection skips it.
Reconciles(req, resp) == ~Rejects(resp)

\* The notification after the continuation of the handler, given cur.
ToastAfter(req, resp, cur) ==
    CASE req.kind = "download" ->
           IF Rejects(resp) THEN ShownToast("Failed to start download", "error")
           ELSE ShownToast("Download started", "success")
      [] req.kind = "cancel" ->
           IF Rejects(resp) THEN cur ELSE ShownToast("Transfer cancelled", "success")
      [] req.kind = "retry" ->
           IF Rejects(resp) THEN cur ELSE ShownToast("Retrying transfer...", "success")

\* Whether the handler of req calls showToast when it resumes with resp.
ShowsToast(req, resp) == req.kind = "download" \/ ~Rejects(resp)

\* fetchUpdates called by a handler: an invocation begins out of cycle. The
\* history watches the cycles of the timer that run alone.
ForceFetchUpdates ==
    /\ runs' = Append(runs, NewRun)
    /\ watch' = NoWatch

\* The fetch of request k settles with resp and its handler runs to its end.
ActSettleWith(k, resp) ==
    LET req == acts[k]
    IN /\ acts' = RemoveAt(acts, k)
       /\ IF Reconciles(req, resp)
            THEN Len(runs) < MaxForced /\ ForceFetchUpdates
            ELSE UNCHANGED <<runs, watch>>
       /\ toast' = IF mounted THEN ToastAfter(req, resp, toast) ELSE toast
       /\ lastLog' = IF req.kind = "download" /\ Rejects(resp)
                       THEN "Download start failed" ELSE lastLog
       /\ UNCHANGED <<mounted, intervalActive, activeTab, stats, queueSize,
                      transfers, pollUncaught>>
       /\ ToastFollows(mounted /\ ShowsToast(req, resp))
       /\ UNCHANGED searchVars
       /\ UNCHANGED <<normVars, viewVars, setVars, draftVars, histVars>>

ActSettle(k) ==
    /\ k \in 1..Len(acts)
    /\ \E resp \in ActResponses : ActSettleWith(k, resp)

----------------------------------------------------------------------------
(* SettingsTab *)

ScalarKeys == {"proxy_url", "proxy_enabled"}

ScalarVals(key) == IF key = "proxy_url" THEN {"", "not a url"} ELSE {TRUE, FALSE}

NetworkNames == {<<"N">>}

\* The NetworkConfig that addNetwork builds for a name.
NetworkOf(name) ==
    [host |-> IrcPrefix \o toLowerCase(name) \o <<".", "n", "e", "t">>,
     port |-> 6697, ssl |-> TRUE, autojoin_channels |-> <<>>, join_delay_secs |-> 6]

\* The working documents (types.AppConfig) of the model
NetworkMaps == UNION {[names -> {NetworkOf(n) : n \in NetworkNames}] : names \in SUBSET NetworkNames}

Docs ==
    [proxy_url : ScalarVals("proxy_url"), proxy_enabled : ScalarVals("proxy_enabled"),
     networks : {nm \in NetworkMaps : \A n \in DOMAIN nm : nm[n] = NetworkOf(n)}]

\* The documents GET /api/settings answers with.
LoadDocs == {d \in Docs : d.proxy_url = "" /\ ~d.proxy_enabled}

\* { ...settings, [key]: value }
Updated(doc, key, value) == [doc EXCEPT ![key] = value]

\* { ...settings.networks, [name]: network }
WithNetwork(nets, name, network) ==
    [n \in DOMAIN nets \cup {name} |-> IF n = name THEN network ELSE nets[n]]

\* newNetworks after delete newNetworks[name]
WithoutNetwork(nets, name) == [n \in DOMAIN nets \ {name} |-> nets[n]]

\* The requests of saveSettings, addNetwork and deleteNetwork; held is the
\* settings of the render whose handler issued the request, which the
\* handler uses when it resumes. JSON.stringify writes every field of the
\* documents of the model, so a body is given by the value it is made from.
SaveRequest(cur) ==
    [kind |-> "save", method |-> "PUT", path |-> <<"api", "settings">>,
     body |-> cur.doc, held |-> cur]

AddRequest(name, cur) ==
    [kind |-> "add", method |-> "PUT", path |-> <<"api", "settings", "networks", name>>,
     body |-> NetworkOf(name), held |-> cur]

DeleteRequest(name, cur) ==
    [kind |-> "delete", method |-> "DELETE",
     path |-> <<"api", "settings", "networks", name>>, body |-> NoBody, held |-> cur]

\* The requests a handler issues when a scalar field is edited.
EditRequestsSave(cur) == {SaveRequest(cur)}

EditRequests(cur) == {}

\* How a request of SettingsTab settles: it rejects, or it resolves with a
\* status and a body that is the JSON of a document or is not JSON.
SetResponses(req) ==
    IF req.kind = "load"
      THEN {[ok |-> FALSE, kind |-> "neterr", doc |-> NoBody],
            [ok |-> FALSE, kind |-> "response", doc |-> NoBody],
            [ok |-> TRUE, kind |-> "notjson", doc |-> NoBody]}
           \cup {[ok |-> TRUE, kind |-> "response", doc |-> d] : d \in LoadDocs}
      ELSE {[ok |-> FALSE, kind |-> "neterr", doc |-> NoBody],
            [ok |-> FALSE, kind |-> "response", doc |-> NoBody],
            [ok |-> TRUE, kind |-> "response", doc |-> NoBody]}

SettingsEditableUnloaded ==
    SettingsRendered(mounted, activeTab) /\ ~loading

\* The controls of SettingsTab are rendered.
SettingsEditable ==
    SettingsRendered(mounted, activeTab) /\ ~loading /\ settings.present

\* What the handlers of SettingsTab leave alone: they run up to their
\* await, if they have one.
SettingsFrame ==
    /\ UNCHANGED <<backendNets, netCallsOk>>
    /\ UNCHANGED <<mounted, intervalActive, activeTab, lastLog, toast, toastClock>>
    /\ UNCHANGED pollVars
    /\ UNCHANGED searchVars
    /\ UNCHANGED <<normVars, viewVars, actVars, draftVars, histVars>>

\* The input of a scalar field is rendered: that of the proxy URL only
\* while the proxy is enabled.
FieldRendered(key, doc) == key = "proxy_url" => doc.proxy_enabled

\* updateSetting, called by onChange of the input of a scalar field
UpdateSetting(key, value) ==
    /\ SettingsEditable
    /\ FieldRendered(key, settings.doc)
    /\ Cardinality(setReqs \cup EditRequests(settings)) <= MaxSetReqs
    /\ settings' = [settings EXCEPT !.doc = Updated(@, key, value)]
    /\ setReqs' = setReqs \cup EditRequests(settings)
    /\ UNCHANGED <<loading, saving, newNetworkName, settingsToast>>
    /\ SettingsFrame

\* onChange of the input of the network name
SetNewNetworkName(text) ==
    /\ SettingsEditable
    /\ newNetworkName' = text
    /\ UNCHANGED <<settings, loading, saving, settingsToast, setReqs>>
    /\ SettingsFrame

\* The checks saveSettings makes of the document before it issues the
\* PUT: that the proxy URL has a scheme, and none.
SaveAcceptsUrlOnly(doc) == doc.proxy_url # "not a url"

SaveAccepts(doc) == TRUE

\* The save button, disabled while saving: saveSettings up to its await.
SaveSettings ==
    /\ SettingsEditable
    /\ ~saving
    /\ SaveAccepts(settings.doc)
    /\ Cardinality(setReqs) < MaxSetReqs
    /\ saving' = TRUE
    /\ setReqs' = setReqs \cup {SaveRequest(settings)}
    /\ UNCHANGED <<settings, loading, newNetworkName, settingsToast>>
    /\ SettingsFrame

\* The add button, disabled while the trimmed name is empty: addNetwork up
\* to its await.
AddNetwork ==
    /\ SettingsEditable
    /\ Trim(newNetworkName) # <<>>
    /\ Cardinality(setReqs) < MaxSetReqs
    /\ setReqs' = setReqs \cup {AddRequest(newNetworkName, settings)}
    /\ UNCHANGED <<settings, loading, saving, newNetworkName, settingsToast>>
    /\ SettingsFrame

\* The delete button of a network of the document: deleteNetwork up to its
\* await.
DeleteNetwork(name) ==
    /\ SettingsEditable
    /\ name \in DOMAIN settings.doc.networks
    /\ Cardinality(setReqs) < MaxSetReqs
    /\ setReqs' = setReqs \cup {DeleteRequest(name, settings)}
    /\ UNCHANGED <<settings, loading, saving, newNetworkName, settingsToast>>
    /\ SettingsFrame

\* The fields of a network that the inputs of its card edit, and the
\* values the model gives them.
NetworkFields == {"ssl"}

NetworkFieldVals(field) == {TRUE, FALSE}

\* The requests updateNetwork issues.
UpdateRequests(name, network, cur) == {}

\* updateNetwork, called by onChange of an input of the card of a network
UpdateNetwork(name, field, value) ==
    /\ SettingsEditable
    /\ name \in DOMAIN settings.doc.networks
    /\ LET network == [settings.doc.networks[name] EXCEPT ![field] = value]
       IN /\ settings' = [settings EXCEPT
                            !.doc.networks = WithNetwork(@, name, network)]
          /\ setReqs' = setReqs \cup UpdateRequests(name, network, settings)
    /\ UNCHANGED <<loading, saving, newNetworkName, settingsToast>>
    /\ SettingsFrame

SetThrows(resp) == resp.kind \in {"neterr", "notjson"}

\* settings after the handler of req has resumed with resp.
SettingsAfter(req, resp, cur) ==
    CASE req.kind = "load" ->
           IF resp.ok /\ resp.kind = "response"
             THEN [present |-> TRUE, doc |-> resp.doc] ELSE cur
      [] req.kind = "save" -> cur
      [] req.kind = "add" ->
           IF SetThrows(resp) THEN cur
           ELSE [req.held EXCEPT
                   !.doc.networks = WithNetwork(@, req.path[4], req.body)]
      [] req.kind = "delete" ->
           IF SetThrows(resp) THEN cur
           ELSE [req.held EXCEPT !.doc.networks = WithoutNetwork(@, req.path[4])]

\* The toast of SettingsTab's own useToast after the handler has resumed.
SettingsToastAfter(req, resp, cur) ==
    CASE req.kind = "load" ->
           IF SetThrows(resp) THEN ShownToast("Failed to load settings", "error") ELSE cur
      [] req.kind = "save" ->
           IF ~SetThrows(resp) /\ resp.ok THEN ShownToast("Settings saved!", "success")
           ELSE ShownToast("Failed to save settings", "error")
      [] req.kind = "add" ->
           IF SetThrows(resp) THEN ShownToast("Failed to add network", "error")
           ELSE ShownToast("Network added", "success")
      [] req.kind = "delete" ->
           IF SetThrows(resp) THEN ShownToast("Failed to delete network", "error")
           ELSE ShownToast("Network deleted", "success")

\* The call of req has succeeded: it resolved with a success status.
Succeeded(resp) == resp.kind = "response" /\ resp.ok

\* The names of the networks the backend holds once it has answered req
\* with resp: those of the document it sends or is sent, and for a call
\* keyed by a network name, that name put or deleted.
BackendAfter(req, resp, cur) ==
    IF ~Succeeded(resp) THEN cur
    ELSE CASE req.kind = "load" -> DOMAIN resp.doc.networks
           [] req.kind = "save" -> DOMAIN req.body.networks
           [] req.kind = "add" -> cur \cup {req.path[4]}
           [] req.kind = "delete" -> cur \ {req.path[4]}

\* The fetch of request req settles with resp and its handler runs to its
\* end.
SetSettleWith(req, resp) ==
    /\ setReqs' = setReqs \ {req}
    /\ backendNets' = BackendAfter(req, resp, backendNets)
    /\ netCallsOk' = (netCallsOk /\ (req.kind \in {"add", "delete"} => Succeeded(resp)))
    /\ settings' = SettingsAfter(req, resp, settings)
    /\ loading' = IF req.kind = "load" THEN FALSE ELSE loading
    /\ saving' = IF req.kind = "save" THEN FALSE ELSE saving
    /\ newNetworkName' = IF req.kind = "add" /\ ~SetThrows(resp) THEN <<>>
                         ELSE newNetworkName
    /\ settingsToast' = SettingsToastAfter(req, resp, settingsToast)
    /\ UNCHANGED <<mounted, intervalActive, activeTab, lastLog, toast, toastClock>>
    /\ UNCHANGED pollVars
    /\ UNCHANGED searchVars
    /\ UNCHANGED <<normVars, viewVars, actVars, histVars>>
    /\ DraftFollows("call")

SetSettle ==
    \E req \in setReqs : \E resp \in SetResponses(req) : SetSettleWith(req, resp)

----------------------------------------------------------------------------
(* AutojoinInput *)

DraftChars == {"a", ",", " "}

ExampleDraft ==
    <<"#", "a", ",", " ", "#", "b", " ", ",", " ", " ", "#", "c">>

\* The texts typed into the input.
Drafts ==
    SeqsUpTo(DraftChars, MaxDraftLen) \cup {ExampleDraft, <<"b", ",", " ", "a">>}

\* String.prototype.split with a one-character separator, continued with
\* the segment cur begun: the text without a separator is one segment.
RECURSIVE SplitFrom(_, _, _)
SplitFrom(text, sep, cur) ==
    IF text = <<>> THEN <<cur>>
    ELSE IF Head(text) = sep THEN <<cur>> \o SplitFrom(Tail(text), sep, <<>>)
    ELSE SplitFrom(Tail(text), sep, Append(cur, Head(text)))

Split(text, sep) == SplitFrom(text, sep, <<>>)

\* .map(c => c.trim())
TrimEach(list) == [i \in 1..Len(list) |-> Trim(list[i])]

KeepsSegmentAlways(c) == TRUE

\* .filter(c => c.length > 0)
KeepsSegment(c) == Len(c) > 0

\* channels of handleBlur
ChannelsOf(text) == SelectSeq(TrimEach(Split(text, ",")), KeepsSegment)

\* AutojoinInput is rendered: the card of its network is.
DraftRendered == SettingsEditable /\ DraftNetwork \in DOMAIN settings.doc.networks

\* What the handlers of AutojoinInput leave alone.
DraftFrame ==
    /\ UNCHANGED <<loading, saving, newNetworkName, settingsToast, backendNets,
                   netCallsOk>>
    /\ UNCHANGED <<mounted, intervalActive, activeTab, lastLog, toast, toastClock>>
    /\ UNCHANGED pollVars
    /\ UNCHANGED searchVars
    /\ UNCHANGED <<normVars, viewVars, actVars, histVars>>

\* onChange of the input: setLocalValue(e.target.value)
SetLocalValue(text) ==
    /\ DraftRendered
    /\ localValue' = text
    /\ UNCHANGED <<settings, setReqs, listFrom>>
    /\ DraftFrame

\* handleBlur: onChange is updateNetwork(name, 'autojoin_channels',
\* channels); in the render that follows, the effect sets localValue to
\* value.join(', ') if value.join(',') has changed.
HandleBlur ==
    /\ DraftRendered
    /\ LET old == settings.doc.networks[DraftNetwork]
           channels == ChannelsOf(localValue)
           network == [old EXCEPT !.autojoin_channels = channels]
       IN /\ settings' = [settings EXCEPT
                            !.doc.networks = WithNetwork(@, DraftNetwork, network)]
          /\ setReqs' = setReqs \cup UpdateRequests(DraftNetwork, network, settings)
    /\ DraftFrame
    /\ DraftFollows("blur")

----------------------------------------------------------------------------
(* HistoryTab *)

\* The ids of the items of a list.
IdsOf(items) == {items[i] : i \in 1..Len(items)}

\* prev.filter(item => !ids.has(item.id))
WithoutIds(items, ids) == SelectSeq(items, LAMBDA id : id \notin ids)

Min(a, b) == IF a < b THEN a ELSE b
Max(a, b) == IF a < b THEN b ELSE a

RECURSIVE Ascending(_)
Ascending(ns) ==
    IF ns = {} THEN <<>>
    ELSE LET least == CHOOSE n \in ns : \A m \in ns : n <= m
         IN <<least>> \o Ascending(ns \ {least})

\* The backend is outside the program. It is taken to hold the records
\* that no call has deleted, in a fixed order, and to serve them in pages
\* of PageSize records with at least one page.
Live(kind, gone) ==
    LET ns == Ascending({n \in 1..MaxRecords : RecordAt(kind, n) \notin gone[kind]})
    IN [i \in 1..Len(ns) |-> RecordAt(kind, ns[i])]

PageOf(list, p) ==
    SubSeq(list, (p - 1) * PageSize + 1, Min(p * PageSize, Len(list)))

PagesFor(n) == Max(1, (n + PageSize - 1) \div PageSize)

\* The page counts a backend may report for n records: the pages it
\* serves, or none when it holds no record.
PageCounts(n) == {PagesFor(n), (n + PageSize - 1) \div PageSize}

\* The requests of handleDeleteSearch and handleDeleteDownload, and of
\* handleBulkDeleteSearches and handleBulkDeleteDownloads; held is the
\* selection or the id their closure refers to after the await.
DeleteSearchRequest(id) ==
    [op |-> "delete", kind |-> "searches", method |-> "DELETE",
     path |-> <<"api", "search-history", id>>, query |-> NoQuery,
     body |-> NoBody, held |-> {id}]

DeleteDownloadRequest(id, deleteFile) ==
    [op |-> "delete", kind |-> "downloads", method |-> "DELETE",
     path |-> <<"api", "history", id>>, query |-> [delete_file |-> deleteFile],
     body |-> NoBody, held |-> {id}]

BulkSearchesRequest(ids) ==
    [op |-> "bulk", kind |-> "searches", method |-> "POST",
     path |-> <<"api", "search-history", "bulk">>, query |-> NoQuery,
     body |-> [ids |-> ids], held |-> ids]

BulkDownloadsRequest(ids, deleteFiles) ==
    [op |-> "bulk", kind |-> "downloads", method |-> "POST",
     path |-> <<"api", "history", "bulk">>, query |-> NoQuery,
     body |-> [ids |-> ids, delete_files |-> deleteFiles], held |-> ids]

\* What a request can be answered with: a fetch with the page it asked
\* for in the paginated shape or, for the downloads, with all records in
\* the legacy shape or with a body of neither shape; a deletion with a
\* status and no body that is read; and each of them can fail in
\* transport.
HistResponses(req, gone) ==
    LET live == Live(req.kind, gone)
        neterr == [NoHistResp EXCEPT !.kind = "neterr"]
    IN IF req.op = "fetch"
         THEN {[kind |-> "response", ok |-> TRUE, shape |-> "paginated",
                items |-> PageOf(live, req.query.page), total |-> Len(live),
                total_pages |-> n] : n \in PageCounts(Len(live))}
              \cup (IF req.kind = "downloads"
                      THEN {[kind |-> "response", ok |-> TRUE, shape |-> "legacy",
                             items |-> live, total |-> Len(live), total_pages |-> 0],
                            [NoHistResp EXCEPT !.kind = "response",
                                               !.shape = "neither"]}
                      ELSE {})
              \cup {neterr}
         ELSE {[kind |-> "response", ok |-> o, shape |-> "none", items |-> <<>>,
                total |-> 0, total_pages |-> 0] : o \in BOOLEAN}
              \cup {neterr}

\* What the handlers of HistoryTab leave alone.
HistFrame ==
    /\ UNCHANGED <<mounted, intervalActive, activeTab, toast, toastClock>>
    /\ UNCHANGED pollVars
    /\ UNCHANGED searchVars
    /\ UNCHANGED <<normVars, viewVars, actVars, setVars, draftVars>>

\* A click in the view, and what window.confirm returned if it was asked.
Click(op, kind, answer) ==
    /\ HistoryRendered(mounted, activeTab)
    /\ histOps < MaxHistOps
    /\ histOps' = histOps + 1
    /\ histLast' = [op |-> op, kind |-> kind, answer |-> answer]

\* A handler runs up to its await.
Issues(req) ==
    /\ Cardinality(histReqs) < MaxHistReqs
    /\ histReqs' = histReqs \cup {req}

\* fetchSearchHistory and fetchDownloadHistory up to their await
BeginsFetch(kind, p) ==
    /\ histLoading' = TRUE
    /\ Issues(FetchRequest(kind, p))

\* The section buttons: setActiveSection; the effect fetches the section
\* shown.
SetActiveSection(kind) ==
    /\ kind \in HistKinds \ {activeSection}
    /\ Click("section", kind, TRUE)
    /\ activeSection' = kind
    /\ BeginsFetch(kind, histPage[kind])
    /\ UNCHANGED <<histItems, histPage, histTotalPages, histTotal, histSelected,
                   histGone, lastLog,
                   expandedSearch, histShown>>
    /\ HistFrame

\* The refresh button of the section shown
Refresh ==
    /\ Click("refresh", activeSection, TRUE)
    /\ BeginsFetch(activeSection, histPage[activeSection])
    /\ UNCHANGED <<activeSection, histItems, histPage, histTotalPages, histTotal,
                   histSelected, histGone, lastLog,
                   expandedSearch, histShown>>
    /\ HistFrame

PageAfterUnclamped(p, totalPages, step) == p + step

\* Math.max(1, p - 1) and Math.min(totalPages, p + 1)
PageAfter(p, totalPages, step) ==
    IF step < 0 THEN Max(1, p - 1) ELSE Min(totalPages, p + 1)

\* The pagination buttons: rendered while totalPages > 1, the previous
\* one disabled on page 1 and the next one on the last page. The fetch
\* function of the new page is another function, so the effect runs.
SetPage(step) ==
    LET kind == activeSection
        p == histPage[kind]
        q == PageAfter(p, histTotalPages[kind], step)
    IN /\ histTotalPages[kind] > 1
       /\ IF step < 0 THEN p # 1 ELSE p # histTotalPages[kind]
       /\ Click("page", kind, TRUE)
       /\ histPage' = [histPage EXCEPT ![kind] = q]
       /\ IF q # p
            THEN BeginsFetch(kind, q)
            ELSE UNCHANGED <<histLoading, histReqs>>
       /\ UNCHANGED <<activeSection, histItems, histTotalPages, histTotal,
                      histSelected, histGone, lastLog,
                   expandedSearch, histShown>>
       /\ HistFrame

\* toggleSearchSelection and toggleDownloadSelection, by the checkbox of
\* a row
ToggleSelection(id) ==
    LET kind == activeSection
    IN /\ id \in IdsOf(histItems[kind])
       /\ Click("toggle", kind, TRUE)
       /\ histSelected' =
            [histSelected EXCEPT
               ![kind] = IF id \in @ THEN @ \ {id} ELSE @ \cup {id}]
       /\ UNCHANGED <<activeSection, histItems, histPage, histTotalPages,
                      histTotal, histLoading, histReqs, histGone, lastLog,
                   expandedSearch, histShown>>
       /\ HistFrame

\* What results_json of the n-th search record holds: the text of a list
\* of results, text that is not JSON, nothing, or the text of a JSON
\* value that is not a list.
ResultsJsonPool == <<"list", "malformed", "missing", "other">>

ResultsJsonOf(id) ==
    ResultsJsonPool[CHOOSE n \in 1..Len(SearchIdPool) : SearchIdPool[n] = id]

\* The row below a search record is rendered: expandedSearch is its id
\* and its results_json is not empty.
RowRendered(items, expanded) ==
    expanded \in IdsOf(items) /\ ResultsJsonOf(expanded) # "missing"

\* JSON.parse(item.results_json).map(...) in the render of that row:
\* JSON.parse throws on text that is not JSON, and a value that is not a
\* list has no map.
ExpandedRowThrows(section, items, expanded) ==
    /\ section = "searches"
    /\ RowRendered(items, expanded)
    /\ ResultsJsonOf(expanded) \in {"malformed", "other"}

\* The button of a search row that shows its result count:
\* setExpandedSearch(expandedSearch === item.id ? null : item.id). An
\* error thrown by the render that follows unmounts the root, as nothing
\* catches it.
SetExpandedSearch(id) ==
    LET e == IF expandedSearch = id THEN NoRow ELSE id
    IN /\ activeSection = "searches"
       /\ id \in IdsOf(histItems["searches"])
       /\ Click("expand", "searches", TRUE)
       /\ IF ExpandedRowThrows(activeSection, histItems["searches"], e)
            THEN /\ mounted' = FALSE
                 /\ intervalActive' = FALSE
                 /\ watch' = NoWatch
                 /\ HistoryStateGone
                 /\ UNCHANGED <<activeTab, toast, stats, queueSize, transfers,
                                runs, pollUncaught, lastLog, histGone>>
                 /\ UNCHANGED searchVars
                 /\ UNCHANGED <<normVars, actVars, draftVars>>
                 /\ ViewFollows
                 /\ SettingsFollows
                 /\ ToastFollows(FALSE)
            ELSE /\ expandedSearch' = e
                 /\ UNCHANGED <<activeSection, histItems, histPage,
                                histTotalPages, histTotal, histSelected,
                                histLoading, histReqs, histGone, histShown,
                                lastLog>>
                 /\ HistFrame

AllSelectedByIds(selection, items) == selection = IdsOf(items)

\* selectedSearches.size === searches.length
AllSelected(selection, items) == Cardinality(selection) = Len(items)

\* selectAllSearches and selectAllDownloads
SelectAll ==
    LET kind == activeSection
    IN /\ Click("selectAll", kind, TRUE)
       /\ histSelected' =
            [histSelected EXCEPT
               ![kind] = IF AllSelected(@, histItems[kind])
                           THEN {} ELSE IdsOf(histItems[kind])]
       /\ UNCHANGED <<activeSection, histItems, histPage, histTotalPages,
                      histTotal, histLoading, histReqs, histGone, lastLog,
                   expandedSearch, histShown>>
       /\ HistFrame

AsksConfirmBulkOnly(op, deleteFile) == op = "bulk"

\* Whether window.confirm is called before the request: by both bulk
\* handlers, and by the button of a row that deletes the file.
AsksConfirm(op, deleteFile) == op = "bulk" \/ deleteFile

\* A click that may ask: the request is issued unless the user declines.
ClickIssues(op, kind, deleteFile, answer, req) ==
    /\ Click(op, kind, AsksConfirm(op, deleteFile) => answer)
    /\ IF AsksConfirm(op, deleteFile) /\ ~answer
         THEN UNCHANGED histReqs
         ELSE Issues(req)
    /\ UNCHANGED <<activeSection, histItems, histPage, histTotalPages, histTotal,
                   histSelected, histLoading, histGone, lastLog,
                   expandedSearch, histShown>>
    /\ HistFrame

\* handleDeleteSearch, by the delete button of a row
HandleDeleteSearch(id) ==
    /\ activeSection = "searches"
    /\ id \in IdsOf(histItems["searches"])
    /\ ClickIssues("delete", "searches", FALSE, TRUE, DeleteSearchRequest(id))

\* The two delete buttons of a download row: handleDeleteDownload(id,
\* false), and handleDeleteDownload(id, true) if window.confirm returns
\* true.
HandleDeleteDownload(id, deleteFile, answer) ==
    /\ activeSection = "downloads"
    /\ id \in IdsOf(histItems["downloads"])
    /\ ClickIssues("delete", "downloads", deleteFile, answer,
                   DeleteDownloadRequest(id, deleteFile))

\* handleBulkDeleteSearches, by the button rendered while the selection
\* is not empty
HandleBulkDeleteSearches(answer) ==
    /\ activeSection = "searches"
    /\ histSelected["searches"] # {}
    /\ ClickIssues("bulk", "searches", FALSE, answer,
                   BulkSearchesRequest(histSelected["searches"]))

\* handleBulkDeleteDownloads, by the two buttons rendered while the
\* selection is not empty
HandleBulkDeleteDownloads(deleteFiles, answer) ==
    /\ activeSection = "downloads"
    /\ histSelected["downloads"] # {}
    /\ ClickIssues("bulk", "downloads", deleteFiles, answer,
                   BulkDownloadsRequest(histSelected["downloads"], deleteFiles))

First(a, b) == a

\* a || b of numbers
OrElse(a, b) == IF a = 0 THEN b ELSE a

HistThrows(resp) == resp.kind = "neterr"

\* Whether the handler of a delete removes the records locally when it
\* resumes: whenever fetch did not reject.
Removes(req, resp) == req.op # "fetch" /\ ~HistThrows(resp)

\* The list of the kind of req after its handler has resumed with resp.
\* Whether a fetch sets the list, the total and the page count when it
\* resumes with resp: fetchDownloadHistory sets them if the body has
\* items or, else, history.
Loads(req, resp) ==
    req.op = "fetch" /\ ~HistThrows(resp) /\ resp.shape # "neither"

\* The list of the kind of req after its handler has resumed with resp.
ItemsAfter(req, resp, items) ==
    IF req.op = "fetch"
      THEN IF Loads(req, resp) THEN resp.items ELSE items
      ELSE IF Removes(req, resp) THEN WithoutIds(items, req.held) ELSE items

TotalPagesAfter(req, resp, totalPages) ==
    IF Loads(req, resp)
      THEN IF req.kind = "searches" THEN resp.total_pages
           ELSE IF resp.shape = "paginated" THEN OrElse(resp.total_pages, 1)
           ELSE 1
      ELSE totalPages

TotalAfter(req, resp, total) ==
    IF req.op = "fetch"
      THEN IF ~Loads(req, resp) THEN total
           ELSE IF req.kind = "searches" THEN resp.total
           ELSE OrElse(resp.total, Len(resp.items))
      ELSE IF Removes(req, resp) THEN total - Cardinality(req.held) ELSE total

SelectedAfter(req, resp, selection) ==
    IF req.op = "bulk" /\ Removes(req, resp) THEN {} ELSE selection

\* The message of console.error in the catch block of the handler.
HistLogOf(req) ==
    IF req.op = "fetch"
      THEN IF req.kind = "searches" THEN "Failed to fetch search history:"
           ELSE "Failed to fetch download history:"
    ELSE IF req.op = "delete"
      THEN IF req.kind = "searches" THEN "Failed to delete search:"
           ELSE "Failed to delete download:"
    ELSE IF req.kind = "searches" THEN "Failed to bulk delete searches:"
    ELSE "Failed to bulk delete downloads:"

\* The records the backend no longer holds once it has answered req.
GoneAfter(req, resp, gone) ==
    IF req.op # "fetch" /\ resp.kind = "response" /\ resp.ok
      THEN gone \cup req.held ELSE gone

\* The fetch whose response set the list of the kind of req last, and
\* whether a fetch of that kind has failed since the view was mounted.
ShownAfter(req, resp, shown) ==
    IF req.op # "fetch" THEN shown
    ELSE IF ~Loads(req, resp) THEN [shown EXCEPT !.failed = TRUE]
    ELSE [shown EXCEPT !.page = req.query.page, !.resp = resp]

\* The handler of req resumes with resp and runs to its end.
HistSettleWith(req, resp) ==
    /\ HistoryRendered(mounted, activeTab)
    /\ req \in histReqs
    /\ resp \in HistResponses(req, histGone)
    /\ histReqs' = histReqs \ {req}
    /\ histItems' = [histItems EXCEPT ![req.kind] = ItemsAfter(req, resp, @)]
    /\ histTotalPages' =
         [histTotalPages EXCEPT ![req.kind] = TotalPagesAfter(req, resp, @)]
    /\ histTotal' = [histTotal EXCEPT ![req.kind] = TotalAfter(req, resp, @)]
    /\ histSelected' =
         [histSelected EXCEPT ![req.kind] = SelectedAfter(req, resp, @)]
    /\ histLoading' = IF req.op = "fetch" THEN FALSE ELSE histLoading
    /\ histGone' = [histGone EXCEPT ![req.kind] = GoneAfter(req, resp, @)]
    /\ lastLog' = IF HistThrows(resp) THEN HistLogOf(req) ELSE lastLog
    /\ histShown' = [histShown EXCEPT ![req.kind] = ShownAfter(req, resp, @)]
    /\ UNCHANGED <<activeSection, histPage, histOps, histLast, expandedSearch>>
    /\ HistFrame

HistSettle ==
    \E req \in histReqs : \E resp \in HistResponses(req, histGone) :
      HistSettleWith(req, resp)

----------------------------------------------------------------------------
(* Applications of normalizeServer to one input *)

\* normalizeServer is applied to the input, then to its own result.
NormalizeStep ==
    /\ Len(srvOut) < MaxApply
    /\ srvOut' = Append(srvOut, normalizeServer(IF srvOut = <<>> THEN srvIn
                                                ELSE srvOut[Len(srvOut)]))
    /\ UNCHANGED <<srvIn, srvPre, mounted, intervalActive, activeTab, lastLog, toast, toastClock>>
    /\ UNCHANGED pollVars
    /\ UNCHANGED searchVars
    /\ UNCHANGED <<viewVars, actVars, setVars, draftVars, histVars>>

\* normalizeServer is applied to the input with "irc." put in front of it.
NormalizePrefixed ==
    /\ srvPre = <<>>
    /\ srvPre' = <<normalizeServer(IrcPrefix \o srvIn)>>
    /\ UNCHANGED <<srvIn, srvOut, mounted, intervalActive, activeTab, lastLog, toast, toastClock>>
    /\ UNCHANGED pollVars
    /\ UNCHANGED searchVars
    /\ UNCHANGED <<viewVars, actVars, setVars, draftVars, histVars>>

----------------------------------------------------------------------------
(* Specifications *)

\* The state once App has rendered first and its effect has run, apart
\* from the result set, the view that shows it and the transfers.
RootInitIn(tab) ==
    /\ mounted = TRUE
    /\ intervalActive = TRUE
    /\ activeTab = tab
    /\ stats = <<>>
    /\ queueSize = 0
    /\ runs = <<>>
    /\ pollUncaught = FALSE
    /\ lastLog = ""
    /\ watch = NoWatch
    /\ query = <<>>
    /\ isLoading = FALSE
    /\ searchPend = "idle"
    /\ searchResp = NoResp
    /\ toast = NoToast
    /\ toastClock = NoClock
    /\ submits = 0
    /\ searchCalls = 0

RootInit == RootInitIn("search")

\* SettingsTab while it is not rendered.
SettingsIsGone ==
    /\ settings = NoSettings
    /\ loading = TRUE
    /\ saving = FALSE
    /\ newNetworkName = <<>>
    /\ settingsToast = NoToast
    /\ setReqs = {}
    /\ backendNets = {}
    /\ netCallsOk = TRUE

\* SearchResults as it is after its first render with a result set.
ViewIs(items) ==
    /\ filterQuery = <<>>
    /\ selectedServer = <<>>
    /\ minSize = Unset
    /\ maxSize = Unset
    /\ minText = <<>>
    /\ maxText = <<>>
    /\ servers = ServersOf(items)
    /\ filteredResults = FilteredOf(items, <<>>, <<>>, Unset, Unset)

\* The state once App has rendered first and its effect has run.
AppInit ==
    /\ RootInit
    /\ transfers = <<>>
    /\ acts = <<>>
    /\ DraftIsFresh
    /\ HistoryIsGone
    /\ SettingsIsGone
    /\ searchResults = [defined |-> TRUE, items |-> <<>>]
    /\ ViewIs(<<>>)

Init ==
    /\ AppInit
    /\ srvIn = <<>>
    /\ srvOut = <<>>
    /\ srvPre = <<>>

\* The poller of the root component.
Next ==
    \/ Tick
    \/ \E i \in 1..MaxInFlight : Settle(i)
    \/ \E t \in Tabs : SetActiveTab(t)
    \/ Unmount

Spec == Init /\ [][Next]_vars

\* The search view; the continuation of handleSearch runs once the
\* response has arrived.
SearchNext ==
    \/ \E q \in Queries : SetQuery(q)
    \/ HandleSubmit
    \/ SearchRespond
    \/ SearchSettle
    \/ HideToast
    \/ \E t \in Tabs : SetActiveTab(t)

SearchSpec == Init /\ [][SearchNext]_vars /\ WF_vars(SearchSettle)

\* normalizeServer over the server strings of the model.
NormInit ==
    /\ AppInit
    /\ srvIn \in ServerStrings
    /\ srvOut = <<>>
    /\ srvPre = <<>>

NormNext == NormalizeStep \/ NormalizePrefixed

NormSpec == NormInit /\ [][NormNext]_vars

\* The server strings, sizes and names of the result sets of the view.
FacetServers ==
    {<<"f">>, <<"N">>, IrcPrefix \o <<"f">>, <<"I", "R", "C", ".", "f">>,
     IrcPrefix \o IrcPrefix \o <<"f">>}

FacetPool == {Result(s, 1024 * 1024, <<"a">>) : s \in FacetServers}

SizePool ==
    {Result(<<"f">>, z, <<"a", "B">>) :
       z \in {0, 1024 * 1024 - 1, 1024 * 1024, 1024 * 1024 + 1, 2 * 1024 * 1024}}

ViewResultLists == SeqsUpTo(FacetPool, MaxResults) \cup SeqsUpTo(SizePool, MaxResults)

FilterTexts == {<<>>, <<"b">>}

SizeTexts == {<<>>} \cup {<<Digits[n + 1]>> : n \in 0..MaxMB}

\* The search view showing a result set that a search has returned.
ViewInit ==
    /\ RootInit
    /\ transfers = <<>>
    /\ acts = <<>>
    /\ DraftIsFresh
    /\ HistoryIsGone
    /\ SettingsIsGone
    /\ searchResults \in [defined : {TRUE}, items : ViewResultLists]
    /\ ViewIs(searchResults.items)
    /\ srvIn = <<>>
    /\ srvOut = <<>>
    /\ srvPre = <<>>

ViewNext ==
    \/ \E text \in FilterTexts : SetFilterQuery(text)
    \/ \E sel \in FacetServers \cup {<<>>} : SetSelectedServer(sel)
    \/ \E text \in SizeTexts : SetMinSize(text)
    \/ \E text \in SizeTexts : SetMaxSize(text)
    \/ \E t \in Tabs : SetActiveTab(t)

ViewSpec == ViewInit /\ [][ViewNext]_vars

\* The search view showing the one result a search has returned.
RefineInit ==
    /\ ViewInit
    /\ Len(searchResults.items) = 1

\* The server filter while further searches replace the result set.
RefineNext ==
    \/ \E sel \in FacetServers \cup {<<>>} : SetSelectedServer(sel)
    \/ \E q \in Queries : SetQuery(q)
    \/ HandleSubmit
    \/ SearchRespond
    \/ SearchSettle

RefineSpec == RefineInit /\ [][RefineNext]_vars

\* The search view with a result set, and the transfers an earlier poll
\* has delivered.
ActionInit ==
    /\ RootInit
    /\ transfers = SomeTransfers
    /\ acts = <<>>
    /\ DraftIsFresh
    /\ HistoryIsGone
    /\ SettingsIsGone
    /\ searchResults \in [defined : {TRUE}, items : {r \in ResultVals : Len(r) = 1}]
    /\ ViewIs(searchResults.items)
    /\ srvIn = <<>>
    /\ srvOut = <<>>
    /\ srvPre = <<>>

\* The click handlers and the invocations of fetchUpdates they begin; the
\* user moves from the search view to the activity view.
ActionNext ==
    \/ \E k \in 1..MaxResults : HandleDownload(k)
    \/ \E k \in 1..Len(transfers) : HandleCancel(k)
    \/ \E k \in 1..Len(transfers) : HandleRetry(k)
    \/ \E k \in 1..MaxActs : ActSettle(k)
    \/ \E i \in 1..MaxForced : Settle(i)
    \/ SetActiveTab("activities")

ActionSpec == ActionInit /\ [][ActionNext]_vars

\* The notification: downloads are started and their calls settle, the
\* seconds pass, the timer of Toast fires and the user closes it.
ToastNext ==
    \/ HandleDownload(1)
    \/ \E k \in 1..MaxActs : ActSettle(k)
    \/ \E i \in 1..MaxForced : Settle(i)
    \/ ClockTick
    \/ ToastTimeout
    \/ HideToast

ToastSpec == ActionInit /\ [][ToastNext]_vars

\* The same with time passing: a timer that is set fires once its delay
\* has passed.
ToastFairSpec == ToastSpec /\ WF_vars(ClockTick) /\ WF_vars(ToastTimeout)

NetworkNameTexts == {<<>>, <<" ">>} \cup NetworkNames

\* The settings view, entered from the search view.
SettingsNext ==
    \/ \E t \in {"search", "settings"} : SetActiveTab(t)
    \/ \E key \in ScalarKeys : \E value \in ScalarVals(key) : UpdateSetting(key, value)
    \/ \E text \in NetworkNameTexts : SetNewNetworkName(text)
    \/ SaveSettings
    \/ AddNetwork
    \/ \E name \in NetworkNames : DeleteNetwork(name)
    \/ SetSettle

SettingsSpec == Init /\ [][SettingsNext]_vars

\* The network names of the calls that overlap.
OverlapNames == {<<"N">>, <<"f">>}

\* The documents the network cards start from: no network, or one.
NetworkDocs ==
    {[proxy_url |-> "", proxy_enabled |-> FALSE, networks |-> nm] :
       nm \in {WithoutNetwork(<<>>, <<>>), WithNetwork(<<>>, <<"N">>, NetworkOf(<<"N">>))}}

\* The add and delete calls that handlers of one render of doc can issue.
CallsFrom(cur) ==
    {AddRequest(n, cur) : n \in OverlapNames}
      \cup {DeleteRequest(n, cur) : n \in DOMAIN cur.doc.networks}

\* The settings view with its document loaded, and add and delete calls
\* that were issued one right after the other, before any has settled.
NetworkInit ==
    /\ RootInitIn("settings")
    /\ transfers = <<>>
    /\ acts = <<>>
    /\ DraftIsFresh
    /\ HistoryIsGone
    /\ searchResults = [defined |-> TRUE, items |-> <<>>]
    /\ ViewIs(<<>>)
    /\ srvIn = <<>>
    /\ srvOut = <<>>
    /\ srvPre = <<>>
    /\ settings \in [present : {TRUE}, doc : NetworkDocs]
    /\ loading = FALSE
    /\ saving = FALSE
    /\ newNetworkName = <<>>
    /\ settingsToast = NoToast
    /\ setReqs \in {calls \in SUBSET CallsFrom(settings) : Cardinality(calls) <= MaxOverlap}
    /\ backendNets = DOMAIN settings.doc.networks
    /\ netCallsOk = TRUE

\* The network cards: calls settle, networks are edited, added and deleted,
\* and the document is saved.
NetworkNext ==
    \/ SetSettle
    \/ \E name \in OverlapNames : \E field \in NetworkFields :
         \E value \in NetworkFieldVals(field) : UpdateNetwork(name, field, value)
    \/ \E text \in OverlapNames : SetNewNetworkName(text)
    \/ AddNetwork
    \/ \E name \in OverlapNames : DeleteNetwork(name)
    \/ SaveSettings

NetworkSpec == NetworkInit /\ [][NetworkNext]_vars

\* The settings view with its document loaded and the card of one network
\* rendered.
DraftInit ==
    /\ NetworkInit
    /\ DraftNetwork \in DOMAIN settings.doc.networks
    /\ setReqs = {}

\* The autojoin input: typing and leaving the field.
DraftNext ==
    \/ \E text \in Drafts : SetLocalValue(text)
    \/ HandleBlur

DraftSpec == DraftInit /\ [][DraftNext]_vars

\* The texts typed while calls of the network cards are in flight.
FewDrafts == {<<"a">>, <<"b", ",", "a">>}

\* The autojoin input while networks are added and deleted around it:
\* the calls resume with the document of the render that issued them.
ReloadInit ==
    /\ NetworkInit
    /\ DraftNetwork \in DOMAIN settings.doc.networks
    /\ setReqs = {}

ReloadNext ==
    \/ \E text \in FewDrafts : SetLocalValue(text)
    \/ HandleBlur
    \/ SetNewNetworkName(<<"f">>)
    \/ AddNetwork
    \/ DeleteNetwork(DraftNetwork)
    \/ SetSettle

ReloadSpec == ReloadInit /\ [][ReloadNext]_vars

\* The history view once HistoryTab has rendered first and its effect has
\* run.
HistoryInit ==
    /\ RootInitIn("history")
    /\ transfers = <<>>
    /\ acts = <<>>
    /\ DraftIsFresh
    /\ SettingsIsGone
    /\ searchResults = [defined |-> TRUE, items |-> <<>>]
    /\ ViewIs(<<>>)
    /\ srvIn = <<>>
    /\ srvOut = <<>>
    /\ srvPre = <<>>
    /\ HistoryStateIs(activeSection, histItems, histPage, histTotalPages,
                      histTotal, histSelected)
    /\ expandedSearch = NoRow
    /\ histShown = NothingShown
    /\ histLoading = TRUE
    /\ histReqs = {FetchRequest("downloads", 1)}
    /\ histGone = [k \in HistKinds |-> {}]
    /\ histOps = 0
    /\ histLast = NoClick

\* The history view: sections, pages, selection, deletions, and the
\* requests settling.
HistoryNext ==
    \/ \E kind \in HistKinds : SetActiveSection(kind)
    \/ Refresh
    \/ \E step \in {-1, 1} : SetPage(step)
    \/ \E kind \in HistKinds : \E id \in RecordIds(kind) : ToggleSelection(id)
    \/ SelectAll
    \/ \E id \in RecordIds("searches") : SetExpandedSearch(id)
    \/ \E id \in RecordIds("searches") : HandleDeleteSearch(id)
    \/ \E id \in RecordIds("downloads") : \E deleteFile, answer \in BOOLEAN :
         HandleDeleteDownload(id, deleteFile, answer)
    \/ \E answer \in BOOLEAN : HandleBulkDeleteSearches(answer)
    \/ \E deleteFiles, answer \in BOOLEAN : HandleBulkDeleteDownloads(deleteFiles, answer)
    \/ HistSettle

HistorySpec == HistoryInit /\ [][HistoryNext]_vars

----------------------------------------------------------------------------
(* Properties of the poller *)

\* The watched cycle has run to its end and no invocation began since.
CycleComplete == watch.live /\ \A r \in Resources : watch.got[r] # "pending"

\* C1: after a poll cycle in which the fetch of one resource threw and the
\* other two returned a 2xx response with their field, the failed
\* resource's slice equals its value before the cycle and the other two
\* slices equal the fetched values.
C1_FailureIsolated ==
    CycleComplete =>
      \A r \in Resources :
        (watch.got[r] = "threw" /\ \A o \in Resources \ {r} : watch.got[o] = "ok")
          => /\ Slice(r) = watch.pre[r]
             /\ \A o \in Resources \ {r} : Slice(o) = watch.val[o]

\* The stats fetch threw with stats populated, queue and transfers changed.
C1_Witness ==
    /\ CycleComplete
    /\ watch.got = [stats |-> "threw", queue |-> "ok", transfers |-> "ok"]
    /\ watch.pre = [stats |-> <<"botA">>, queue |-> 0, transfers |-> <<>>]
    /\ watch.val.queue = 1
    /\ watch.val.transfers = SomeTransfers

\* C2: a poll response that is non-2xx, or whose body lacks the expected
\* field, leaves the resource's slice at the value it had before the cycle.
C2_BadResponseRetained ==
    CycleComplete =>
      \A r \in Resources : watch.got[r] = "bad" => Slice(r) = watch.pre[r]

\* C3: no rejection escapes an invocation of fetchUpdates, and whatever
\* was logged the interval stays set while the root is mounted and fires
\* again as soon as the model's bound on invocations in flight allows.
C3_PollingSurvivesErrors ==
    /\ ~pollUncaught
    /\ mounted => intervalActive
    /\ (mounted /\ Len(runs) < MaxInFlight) => ENABLED Tick

\* A cycle begun alone, after a failure of an earlier cycle was logged.
C3_Witness ==
    /\ lastLog = "Transfers fetch failed"
    /\ watch.live
    /\ \A r \in Resources : watch.got[r] = "pending"
    /\ Len(runs) = 1

\* Invocation i applies a result for resource r although an invocation
\* begun later has applied its result for r already.
StaleApply(i, r) ==
    /\ i \in 1..Len(runs)
    /\ runs[i].pc = r
    /\ r \in runs[i].stale
    /\ Settle(i)

\* C4: a response of an earlier-issued cycle for a resource does not change
\* the slice once a later-issued cycle's result for it has been applied.
C4_NoStaleOverwrite ==
    [][\A i \in 1..MaxInFlight : \A r \in Resources :
         StaleApply(i, r) => Slice(r)' = Slice(r)]_vars

----------------------------------------------------------------------------
(* Properties of the search *)

IsBlank(q) == \A i \in 1..Len(q) : q[i] \in Whitespace

\* C7: a submission of the form with an empty or whitespace-only query
\* issues no request and leaves the result set and the loading flag as
\* they were.
C7_BlankQueryRejected ==
    [][(submits' # submits /\ IsBlank(query)) =>
         UNCHANGED <<searchPend, searchCalls, searchResults, isLoading>>]_vars

\* A whitespace-only query was submitted over a populated result set.
C7_Witness ==
    /\ submits > searchCalls
    /\ query # <<>>
    /\ IsBlank(query)
    /\ searchResults.items # <<>>
    /\ searchPend = "idle"

\* A search request failed: transport error, non-success status, or a body
\* that is not JSON or lacks the results.
SearchFailed(resp) == Throws(resp) \/ ~resp.ok \/ resp.kind # "field"

\* C8: when a search request fails the result set is empty afterwards and
\* a failure notification is shown.
C8_FailureEmptiesResults ==
    [][(searchPend = "arrived" /\ searchPend' = "idle" /\ SearchFailed(searchResp)) =>
         /\ searchResults' = [defined |-> TRUE, items |-> <<>>]
         /\ toast'.visible
         /\ toast'.type = "error"]_vars

\* C9: once the response of a search has arrived the loading flag becomes
\* false, whatever the response was.
C9_LoadingCleared == (searchPend = "arrived") ~> ~isLoading

\* A search whose request failed has settled and the flag is down.
C9_Witness ==
    /\ lastLog = "Search failed"
    /\ searchPend = "idle"
    /\ ~isLoading
    /\ searchCalls > 0
    /\ mounted

----------------------------------------------------------------------------
(* Properties of normalizeServer *)

\* C10: normalizeServer is idempotent: applied to its own result it
\* returns that result.
C10_Idempotent == Len(srvOut) >= 2 => srvOut[2] = srvOut[1]

\* C11: for a server string that does not start with the literal "irc.",
\* normalizeServer gives the same result with and without "irc." put in
\* front of it.
C11_PrefixInsensitive ==
    (srvOut # <<>> /\ srvPre # <<>> /\ ~HasPrefix(srvIn, IrcPrefix))
      => srvPre[1] = srvOut[1]

----------------------------------------------------------------------------
(* Properties of the search result view *)

\* The facet entries whose normalized value is that of server string s.
EntriesFor(s) ==
    {k \in 1..Len(servers) : normalizeServer(servers[k]) = normalizeServer(s)}

\* C12: while the result view shows a result set, its facet list holds
\* exactly one entry for the normalized server value of every result, and
\* every entry is the raw server string of the first result in input order
\* that has its normalized value.
C12_FacetList ==
    ViewRendered(mounted, activeTab, searchResults) =>
      LET items == searchResults.items
      IN /\ \A i \in 1..Len(items) : Cardinality(EntriesFor(items[i].server)) = 1
         /\ \A k \in 1..Len(servers) :
              \E i \in 1..Len(items) :
                /\ items[i].server = servers[k]
                /\ \A j \in 1..(i - 1) :
                     normalizeServer(items[j].server) # normalizeServer(items[i].server)

\* Two results that differ in their raw server string and agree in its
\* normalized value, shown with a facet list of the first one's string.
C12_Witness ==
    /\ ViewRendered(mounted, activeTab, searchResults)
    /\ Len(searchResults.items) = 2
    /\ searchResults.items[1].server # searchResults.items[2].server
    /\ normalizeServer(searchResults.items[1].server)
         = normalizeServer(searchResults.items[2].server)
    /\ servers = <<searchResults.items[1].server>>

\* The size of res lies within the bounds entered in the two size inputs,
\* an empty input being no bound.
InEnteredRange(res) ==
    /\ minText = <<>> \/ NumberOf(minText) * 1024 * 1024 <= res.file_size
    /\ maxText = <<>> \/ res.file_size <= NumberOf(maxText) * 1024 * 1024

\* C13: with no text filter and no server selected, the filtered output is
\* exactly the results whose size lies between the entered bounds, both
\* inclusive; an empty input bounds nothing and an entered 0 is a bound.
C13_SizeFilter ==
    (ViewRendered(mounted, activeTab, searchResults)
       /\ filterQuery = <<>> /\ selectedServer = <<>>)
      => filteredResults = SelectSeq(searchResults.items, InEnteredRange)

\* Both bounds are entered as 0 and tell results of size 0 from larger ones.
C13_Witness ==
    /\ ViewRendered(mounted, activeTab, searchResults)
    /\ filterQuery = <<>> /\ selectedServer = <<>>
    /\ minText = <<"0">> /\ maxText = <<"0">>
    /\ filteredResults # <<>>
    /\ Len(filteredResults) < Len(searchResults.items)

----------------------------------------------------------------------------
(* Properties of the click handlers *)

\* The step is the settling of request k with resp, k being of a kind.
SettlesAs(kind, k, resp) == acts[k].kind = kind /\ ActSettleWith(k, resp)

\* The step begins an invocation of fetchUpdates.
BeginsRun == Len(runs') = Len(runs) + 1 /\ runs'[Len(runs')] = NewRun

\* C14: whenever a retry call settles, whether it succeeded or failed, an
\* out-of-cycle invocation of the three poll fetches begins.
C14_RetryReconciles ==
    [][\A k \in 1..Len(acts) : \A resp \in ActResponses :
         SettlesAs("retry", k, resp) => BeginsRun]_vars

\* C15: whenever the POST of a download settles, an invocation of the
\* three poll fetches begins at once, and a notification is shown that is a
\* success for a success status and a failure otherwise.
C15_DownloadReconcilesAndNotifies ==
    [][\A k \in 1..Len(acts) : \A resp \in ActResponses :
         SettlesAs("download", k, resp) =>
           /\ BeginsRun
           /\ toast'.visible
           /\ toast'.type = IF resp.ok THEN "success" ELSE "error"]_vars

\* C16: the transfer list changes only in a step in which an invocation of
\* fetchUpdates applies the response of its transfer-list fetch; clicking
\* cancel, retry or download and the settling of their calls leave it as it
\* is.
C16_NoLocalUpdate ==
    [][transfers' # transfers =>
         \E i \in 1..Len(runs) : runs[i].pc = "transfers" /\ Settle(i)]_vars

\* A cancel has settled, the invocation it began has ended, and the list
\* still shows the transfer that was to be cancelled.
C16_Witness ==
    /\ toast = ShownToast("Transfer cancelled", "success")
    /\ acts = <<>>
    /\ runs = <<>>
    /\ \E k \in 1..Len(transfers) :
         transfers[k].id = "t2" /\ transfers[k].status = "downloading"

\* The step issues a retry request for transfer id.
RetryIssued(id) ==
    /\ Len(acts') = Len(acts) + 1
    /\ acts'[Len(acts')] = RetryRequest(id)

\* C17: for every status, listed or not, exactly one control is offered,
\* retry if the status is failed or cancelled and cancel otherwise; and a
\* retry request is issued only for a transfer that the list holds with
\* status failed or cancelled.
C17_OneControl ==
    /\ [](\A st \in TransferStatuses \cup {OtherStatus} :
            Controls(st) = IF st \in {"failed", "cancelled"} THEN {"retry"}
                           ELSE {"cancel"})
    /\ [](\A k \in 1..Len(transfers) : Cardinality(Controls(transfers[k].status)) = 1)
    /\ [][\A id \in {"t1", "t2", "t3"} :
            RetryIssued(id) =>
              \E k \in 1..Len(transfers) :
                /\ transfers[k].id = id
                /\ transfers[k].status \in {"failed", "cancelled"}]_vars

\* A retry request is in flight while the list holds a failed transfer, an
\* active one and one of a status that is not listed.
C17_Witness ==
    /\ activeTab = "activities"
    /\ transfers = SomeTransfers
    /\ \E k \in 1..Len(acts) : acts[k] = RetryRequest("t1")

\* C18: whenever the call of a download, cancel or retry settles as a
\* failure (it rejects, or resolves with a status that is not a success), a
\* failure notification is visible afterwards.
C18_FailureNotified ==
    [][\A k \in 1..Len(acts) : \A resp \in ActResponses :
         (ActSettleWith(k, resp) /\ (Rejects(resp) \/ ~resp.ok)) =>
           (toast'.visible /\ toast'.type = "error")]_vars

----------------------------------------------------------------------------
(* Properties of the settings view *)

\* The notification a save that settled with resp is to be reported with.
SaveNotice(resp) ==
    IF resp.kind = "response" /\ resp.ok THEN ShownToast("Settings saved!", "success")
    ELSE ShownToast("Failed to save settings", "error")

\* C19: whenever a save of the settings settles, the notification of the
\* root shows a success message if the PUT returned a success status and a
\* failure message otherwise.
C19_SaveNotifiedByRoot ==
    [][\A req \in setReqs : \A resp \in SetResponses(req) :
         (req.kind = "save" /\ SetSettleWith(req, resp)) => toast' = SaveNotice(resp)]_vars

\* C20: an edit of a scalar field sets that field of the working document,
\* leaves every other field as it is and issues no request; save issues one
\* PUT of /api/settings whose body is the working document as it stands;
\* and no other request carries a scalar field.
C20_ScalarEditsLocal ==
    /\ [][\A key \in ScalarKeys : \A value \in ScalarVals(key) :
            UpdateSetting(key, value) =>
              /\ settings'.doc[key] = value
              /\ \A k \in DOMAIN settings.doc \ {key} : settings'.doc[k] = settings.doc[k]
              /\ setReqs' = setReqs]_vars
    /\ [][SaveSettings =>
            \E req \in setReqs' :
              /\ setReqs' \ setReqs = {req}
              /\ req.method = "PUT"
              /\ req.path = <<"api", "settings">>
              /\ req.body = settings.doc]_vars
    /\ [](\A req \in setReqs :
            (ScalarKeys \cap DOMAIN req.body # {}) =>
              (req.kind = "save" /\ req.method = "PUT" /\ req.path = <<"api", "settings">>))

\* A save is in flight with the document as it was edited before the
\* save, and the working document has been edited again since.
C20_Witness ==
    /\ SettingsEditable
    /\ \E req \in setReqs :
         /\ req.kind = "save"
         /\ req.body.proxy_url = "not a url"
         /\ ~req.body.proxy_enabled
    /\ settings.doc.proxy_enabled

\* The step issues a call keyed by the name of a network.
IssuesNetworkCall(name) ==
    \E req \in setReqs' \ setReqs :
      /\ req.method \in {"PUT", "DELETE"}
      /\ req.path = <<"api", "settings", "networks", name>>

\* C21: every edit of a field of a network that changes the working
\* document issues, in the same step, a call of its own keyed by the name
\* of the network.
C21_NetworkEditCalls ==
    [][\A name \in OverlapNames : \A field \in NetworkFields :
         \A value \in NetworkFieldVals(field) :
           (UpdateNetwork(name, field, value) /\ settings' # settings)
             => IssuesNetworkCall(name)]_vars

\* C22: once add and delete calls of networks that all succeeded have
\* settled, the networks of the working document are those the backend
\* holds.
C22_PathsConsistent ==
    (SettingsEditable /\ setReqs = {} /\ netCallsOk)
      => DOMAIN settings.doc.networks = backendNets

\* C24: while the proxy is disabled, the save button issues the PUT
\* whatever proxy_url holds: with the controls rendered, no save in flight
\* and room for a request, saveSettings can issue its PUT.
C24_SaveIgnoresProxyUrl ==
    (SettingsEditable /\ ~saving /\ Cardinality(setReqs) < MaxSetReqs
       /\ ~settings.doc.proxy_enabled)
      => ENABLED SaveSettings

\* A save is in flight whose body has the proxy disabled and a proxy_url
\* that is not a URL.
C24_Witness ==
    /\ saving
    /\ \E req \in setReqs :
         /\ req.kind = "save"
         /\ ~req.body.proxy_enabled
         /\ req.body.proxy_url = "not a url"
         /\ req.body = settings.doc

----------------------------------------------------------------------------
(* Properties of the autojoin input *)

\* The positions of the commas of text, with the positions before its
\* first and after its last character.
CommaCuts(text) ==
    {0, Len(text) + 1} \cup {i \in 1..Len(text) : text[i] = ","}

\* What stands between one cut and the next, trimmed, in order.
SegmentsBetween(text) ==
    LET cuts == CommaCuts(text)
        cut(k) == CHOOSE c \in cuts : Cardinality({x \in cuts : x < c}) = k
    IN [k \in 1..(Cardinality(cuts) - 1) |->
          Trim(SubSeq(text, cut(k - 1) + 1, cut(k) - 1))]

NotEmpty(c) == c # <<>>

\* The list committed for the network of the input.
Committed(cur) == cur.doc.networks[DraftNetwork].autojoin_channels

ExampleChannels == <<<<"#", "a">>, <<"#", "b">>, <<"#", "c">>>>

\* C23: leaving the input commits the segments between the commas of
\* the draft, each trimmed, the empty ones dropped, in their order;
\* "#a, #b ,  #c" commits #a, #b, #c; and committing the rendering of
\* the committed list, joined with ", ", commits the same list again.
C23_CommitParsesDraft ==
    [][HandleBlur =>
         /\ Committed(settings') = SelectSeq(SegmentsBetween(localValue), NotEmpty)
         /\ localValue = ExampleDraft => Committed(settings') = ExampleChannels
         /\ localValue = Join(Committed(settings), <<",", " ">>)
              => Committed(settings') = Committed(settings)]_vars

\* The example was committed, and the input shows its rendering.
C23_Witness ==
    /\ DraftRendered
    /\ Committed(settings) = ExampleChannels
    /\ localValue = Join(ExampleChannels, <<",", " ">>)
    /\ localValue # ExampleDraft

----------------------------------------------------------------------------
(* Properties of the history view *)

\* C25: for each kind, the page shown lies between 1 and the number of
\* pages, whatever pages were changed, fetched and deleted from.
C25_PageInRange ==
    HistoryRendered(mounted, activeTab)
      => \A kind \in HistKinds :
           1 <= histPage[kind] /\ histPage[kind] <= histTotalPages[kind]

\* C26: select-all clears the selection of the section shown when it has
\* as many ids as items are loaded, and otherwise makes it the ids of
\* the loaded items; the selection of the other kind stays.
C26_SelectAllToggles ==
    [][SelectAll =>
         \A kind \in HistKinds :
           histSelected'[kind] =
             IF kind # activeSection THEN histSelected[kind]
             ELSE IF Cardinality(histSelected[kind]) = Len(histItems[kind]) THEN {}
             ELSE IdsOf(histItems[kind])]_vars

\* Select-all was clicked last and every loaded item is selected.
C26_Witness ==
    /\ histLast.op = "selectAll"
    /\ histItems[activeSection] # <<>>
    /\ histSelected[activeSection] = IdsOf(histItems[activeSection])

\* C27: for each kind, every selected id is the id of a loaded item.
C27_SelectionLoaded ==
    \A kind \in HistKinds : histSelected[kind] \subseteq IdsOf(histItems[kind])

\* A fetch is begun by the step.
BeginsAFetch == \E req \in histReqs' \ histReqs : req.op = "fetch"

\* C28: a confirmed bulk delete of downloads issues the one POST
\* /api/history/bulk with the selected ids and the delete_files chosen;
\* when it has succeeded, no loaded item has one of those ids, the total
\* is lower by the number of records the call deleted, the selection is
\* empty, and no fetch was begun.
C28_BulkDeleteDownloads ==
    /\ [][\A deleteFiles \in BOOLEAN :
            HandleBulkDeleteDownloads(deleteFiles, TRUE) =>
              /\ histReqs' \ histReqs =
                   {BulkDownloadsRequest(histSelected["downloads"], deleteFiles)}
              /\ \A req \in histReqs' \ histReqs :
                   /\ req.method = "POST"
                   /\ req.path = <<"api", "history", "bulk">>
                   /\ req.body = [ids |-> histSelected["downloads"],
                                  delete_files |-> deleteFiles]]_vars
    /\ [][\A req \in histReqs : \A resp \in HistResponses(req, histGone) :
            (/\ HistSettleWith(req, resp)
             /\ req.op = "bulk"
             /\ req.kind = "downloads"
             /\ resp.kind = "response"
             /\ resp.ok)
              => /\ IdsOf(histItems'["downloads"]) \cap req.body.ids = {}
                 /\ histTotal'["downloads"] =
                      histTotal["downloads"]
                        - Cardinality(req.body.ids \ histGone["downloads"])
                 /\ histSelected'["downloads"] = {}
                 /\ ~BeginsAFetch]_vars

\* C29: the handler of a single delete removes the id from the loaded
\* list and lowers the total by 1 when the call has succeeded, leaves
\* both alone when it failed in transport or with a status, and begins
\* no fetch.
C29_DeleteOnlyOnSuccess ==
    [][\A req \in histReqs : \A resp \in HistResponses(req, histGone) :
         (HistSettleWith(req, resp) /\ req.op = "delete")
           => /\ ~BeginsAFetch
              /\ IF resp.kind = "response" /\ resp.ok
                   THEN /\ histItems'[req.kind] = WithoutIds(histItems[req.kind], req.held)
                        /\ histTotal'[req.kind] = histTotal[req.kind] - 1
                   ELSE /\ histItems'[req.kind] = histItems[req.kind]
                        /\ histTotal'[req.kind] = histTotal[req.kind]]_vars

\* The step issues a bulk delete or a single delete that deletes the file.
IssuesDestructive ==
    \E req \in histReqs' \ histReqs :
      \/ req.op = "bulk"
      \/ req.op = "delete" /\ req.kind = "downloads" /\ req.query.delete_file

\* C30: a bulk delete and a single delete that deletes the file are
\* issued only by a click the user has confirmed; a click the user
\* declines issues no request and leaves lists, totals and selections
\* alone.
C30_ConfirmBeforeCall ==
    [][/\ IssuesDestructive =>
            \/ \E deleteFiles \in BOOLEAN : HandleBulkDeleteDownloads(deleteFiles, TRUE)
            \/ HandleBulkDeleteSearches(TRUE)
            \/ \E id \in RecordIds("downloads") : HandleDeleteDownload(id, TRUE, TRUE)
       /\ (\/ \E deleteFiles \in BOOLEAN : HandleBulkDeleteDownloads(deleteFiles, FALSE)
           \/ HandleBulkDeleteSearches(FALSE)
           \/ \E id \in RecordIds("downloads") : HandleDeleteDownload(id, TRUE, FALSE))
            => UNCHANGED <<histReqs, histItems, histTotal, histSelected>>]_vars

\* The user has declined the confirmation of a bulk delete: the selection
\* is kept and no request is in flight.
C30_Witness ==
    /\ histLast.op = "bulk"
    /\ ~histLast.answer
    /\ histSelected[activeSection] # {}
    /\ histReqs = {}

----------------------------------------------------------------------------
(* Properties of edits that overlap calls and of failed loads *)

\* C35: when an add or delete call of a network completes, the working
\* document keeps its scalar fields and every network but the one the
\* call names, with the edits made while the call was in flight.
C35_EditsSurviveCalls ==
    [][\A req \in setReqs : \A resp \in SetResponses(req) :
         (/\ SetSettleWith(req, resp)
          /\ req.kind \in {"add", "delete"}
          /\ settings.present)
           => /\ settings'.present
              /\ settings'.doc.proxy_url = settings.doc.proxy_url
              /\ settings'.doc.proxy_enabled = settings.doc.proxy_enabled
              /\ \A name \in (DOMAIN settings.doc.networks
                               \cup DOMAIN settings'.doc.networks) \ {req.path[4]} :
                   /\ name \in DOMAIN settings.doc.networks
                   /\ name \in DOMAIN settings'.doc.networks
                   /\ settings'.doc.networks[name] = settings.doc.networks[name]]_vars

\* No handler of SettingsTab can act.
SettingsInert ==
    /\ ~ENABLED SaveSettings
    /\ ~ENABLED AddNetwork
    /\ \A key \in ScalarKeys : \A value \in ScalarVals(key) :
         ~ENABLED UpdateSetting(key, value)
    /\ \A name \in OverlapNames :
         /\ ~ENABLED DeleteNetwork(name)
         /\ \A field \in NetworkFields : \A value \in NetworkFieldVals(field) :
              ~ENABLED UpdateNetwork(name, field, value)

\* C40: once the load of the settings has settled, loading is false; and
\* while no document is loaded, saveSettings, updateSetting, addNetwork,
\* deleteNetwork and updateNetwork cannot act: no call is issued and the
\* document stays absent.
C40_FailedLoadInert ==
    SettingsRendered(mounted, activeTab) =>
      /\ (\A req \in setReqs : req.kind # "load") => ~loading
      /\ ~settings.present =>
           /\ SettingsInert
           /\ \A req \in setReqs : req.kind = "load"

\* The load has settled without a document.
C40_Witness ==
    /\ SettingsRendered(mounted, activeTab)
    /\ ~loading
    /\ ~settings.present
    /\ setReqs = {}

----------------------------------------------------------------------------
(* Properties of the server filter across searches *)

\* C39: while the result view is rendered, the selected server is empty
\* or an entry of the facet list of the current result set.
C39_SelectedIsFacet ==
    ViewRendered(mounted, activeTab, searchResults) =>
      \/ selectedServer = <<>>
      \/ \E k \in 1..Len(servers) : servers[k] = selectedServer

\* ---------------------------------------------------------------------
\* Properties of the history counters
\* ---------------------------------------------------------------------

\* C36: for each history kind the local total is never negative and never
\* smaller than the number of loaded items, whatever fetches, single
\* deletes, selection toggles and bulk deletes came before.
C36_TotalCoversItems ==
    HistoryRendered(mounted, activeTab) =>
        \A kind \in HistKinds :
            /\ histTotal[kind] >= 0
            /\ histTotal[kind] >= Len(histItems[kind])

\* A fetch of the kind is in flight.
FetchInFlight(kind) == \E req \in histReqs : req.op = "fetch" /\ req.kind = kind

\* C37: for each kind, once no fetch is in flight and none has failed,
\* the list was set by the response to the fetch of the page selected: a
\* slower response for a page selected before has not replaced it.
C37_ShowsSelectedPage ==
    HistoryRendered(mounted, activeTab) =>
        \A kind \in HistKinds :
            (/\ ~FetchInFlight(kind)
             /\ histShown[kind].page # 0
             /\ ~histShown[kind].failed)
            => histShown[kind].page = histPage[kind]

\* ---------------------------------------------------------------------
\* Properties of the expanded search row
\* ---------------------------------------------------------------------

\* C31: expanding a search row whose results_json is missing, is not
\* JSON or is not a list leaves the view rendered with no row shown
\* below that record, and leaves the lists, the selections and the pages
\* as they were.
C31_BadJsonNotExpanded ==
    [][\A id \in RecordIds("searches") :
         (/\ SetExpandedSearch(id)
          /\ expandedSearch # id
          /\ ResultsJsonOf(id) # "list")
         => /\ HistoryRendered(mounted', activeTab')
            /\ ~( /\ RowRendered(histItems'["searches"], expandedSearch')
                  /\ expandedSearch' = id )
            /\ UNCHANGED <<histItems, histSelected, histPage, histTotalPages,
                           histTotal>>]_vars

\* ---------------------------------------------------------------------
\* Properties of the download-history fetch
\* ---------------------------------------------------------------------

\* The fetch of the downloads resumes with resp, which did not fail in
\* transport.
DownloadsFetched(req, resp) ==
    /\ HistSettleWith(req, resp)
    /\ req.op = "fetch"
    /\ req.kind = "downloads"
    /\ ~HistThrows(resp)

\* What every body leaves of the local model, and the list it sets.
ShapeSetsList(resp) ==
    IF resp.shape = "neither"
      THEN UNCHANGED <<histItems, histTotal, histTotalPages>>
      ELSE histItems'["downloads"] = resp.items

\* C32 as stated: the paginated shape sets the total to total and the
\* page count to total_pages, the legacy shape sets the total to count
\* and the page count to 1, and a body of neither shape changes nothing.
C32_ShapesAsStated ==
    [][\A req \in histReqs : \A resp \in HistResponses(req, histGone) :
         DownloadsFetched(req, resp) =>
           /\ ShapeSetsList(resp)
           /\ resp.shape = "paginated" =>
                /\ histTotal'["downloads"] = resp.total
                /\ histTotalPages'["downloads"] = resp.total_pages
           /\ resp.shape = "legacy" =>
                /\ histTotal'["downloads"] = resp.total
                /\ histTotalPages'["downloads"] = 1]_vars

\* C32: the download-history fetch sets the list to items or to history;
\* the total to total or count, or to the length of the list when that
\* is 0; the page count to total_pages, or to 1 when that is 0 and for
\* the legacy shape; and a body of neither shape changes nothing.
C32_ShapesNormalized ==
    [][\A req \in histReqs : \A resp \in HistResponses(req, histGone) :
         DownloadsFetched(req, resp) =>
           /\ ShapeSetsList(resp)
           /\ resp.shape # "neither" =>
                histTotal'["downloads"] =
                  IF resp.total = 0 THEN Len(resp.items) ELSE resp.total
           /\ resp.shape = "paginated" =>
                histTotalPages'["downloads"] =
                  IF resp.total_pages = 0 THEN 1 ELSE resp.total_pages
           /\ resp.shape = "legacy" => histTotalPages'["downloads"] = 1]_vars

\* The downloads were fetched again after the last record was deleted,
\* and the body reported no page.
C32_Witness ==
    /\ HistoryRendered(mounted, activeTab)
    /\ ~FetchInFlight("downloads")
    /\ histShown["downloads"].resp.shape = "paginated"
    /\ histShown["downloads"].resp.total_pages = 0
    /\ histTotalPages["downloads"] = 1
    /\ histItems["downloads"] = <<>>

\* ---------------------------------------------------------------------
\* Properties of the draft of the autojoin input
\* ---------------------------------------------------------------------

\* C34: a keystroke changes the draft only, so the list of the network
\* in the working document stays as it is until the field loses focus;
\* and after a step other than a keystroke that gives the input another
\* list, or that mounts the input, the draft is the list joined with
\* ", ".
C34_DraftIsLocal ==
    /\ [][\A text \in FewDrafts :
            SetLocalValue(text) => UNCHANGED <<settings, setReqs>>]_vars
    /\ [][(/\ DraftShown(mounted', activeTab', loading', settings')
           /\ \/ ~DraftShown(mounted, activeTab, loading, settings)
              \/ ListIn(settings') # ListIn(settings))
          => localValue' = Join(ListIn(settings'), <<",", " ">>)]_vars

\* A call that was issued before the field lost focus has resumed and
\* has put back the list that its render held: the draft is that list
\* joined.
C34_Witness ==
    /\ DraftShown(mounted, activeTab, loading, settings)
    /\ listFrom = "call"
    /\ ListIn(settings) = <<<<"b">>, <<"a">>>>
    /\ localValue = <<"b", ",", " ", "a">>

\* ---------------------------------------------------------------------
\* Properties of the notification
\* ---------------------------------------------------------------------

\* The messages on the screen: that of the Toast App renders. The
\* notification states of SettingsTab and HistoryTab are rendered by no
\* component.
VisibleMessages ==
    IF ToastRendered(mounted, toast) THEN {toast.message} ELSE {}

ToastIsVisible == ToastRendered(mounted, toast)

\* C33: at most one notification message is visible at any time, and
\* with time passing and no click of the user, every notification that
\* is visible is dismissed.
C33_OneToastDismissed ==
    /\ [](Cardinality(VisibleMessages) <= 1)
    /\ (ToastIsVisible ~> ~ToastIsVisible)

\* A notification is visible and its timer has run down.
C33_Witness ==
    /\ ToastRendered(mounted, toast)
    /\ toastClock.timer = 0
    /\ toast.message = "Download started"

\* C38: the timer that hides a notification is the one that was set
\* when that notification was shown: when it fires, the message has
\* been visible for the whole delay.
C38_OwnTimerDismisses ==
    [][ToastTimeout => toastClock.age = ToastDelay]_vars

============================================================================
